---- MODULE Spec2Model ----
(***************************************************************************)
(* IfcRelationsIndexer (packages/core/src/ifc/IfcRelationsIndexer).        *)
(*                                                                         *)
(* A RelationsMap is a JavaScript Map<number, Map<number, number[]>>.  A   *)
(* Map iterates in insertion order, so a Map is modelled as the sequence   *)
(* of its <<key, value>> entries in insertion order.  A map object that is *)
(* shared by reference is the record [ref, entries]: ref is its identity.  *)
(* A plain JavaScript object enumerates its integer-like keys in ascending *)
(* numeric order, whatever the order they were added in; it is modelled as *)
(* the sequence of its <<key string, value>> properties in enumeration     *)
(* order.  A key string is the sequence of its decimal digit characters.   *)
(***************************************************************************)
EXTENDS Integers, Sequences, FiniteSets, TLC

(* ------------------------------ bounds -------------------------------- *)
\* entity expressIDs are 1..MaxId
MaxId == 2
\* the related list of a relation record has at most MaxRelated elements
MaxRelated == 2
\* the file of the model has at most MaxRecords relation records
MaxRecords == 2
\* the records of the file are of the first NumKinds kinds of ifcRels
NumKinds == 3
\* where calls overlap, or maps are disposed of and restored, the file has
\* at most MaxLifecycleRecords relation records
MaxLifecycleRecords == 1
\* the number of callers that may have a call in progress at the same time
NumProcs == 2
\* the sets attached to the entities of a facet test, and the items of a set
MaxSets == 2
MaxItems == 2

(* --------------------------- static tables ---------------------------- *)
inverseAttributes ==
  << "IsDecomposedBy", "Decomposes", "AssociatedTo", "HasAssociations",
     "ClassificationForObjects", "IsGroupedBy", "HasAssignments",
     "IsDefinedBy", "DefinesOcurrence", "IsTypedBy", "Types", "Defines",
     "ContainedInStructure", "ContainsElements" >>

ifcRels ==
  << "IFCRELAGGREGATES", "IFCRELASSOCIATESMATERIAL",
     "IFCRELASSOCIATESCLASSIFICATION", "IFCRELASSIGNSTOGROUP",
     "IFCRELDEFINESBYPROPERTIES", "IFCRELDEFINESBYTYPE",
     "IFCRELDEFINESBYTEMPLATE", "IFCRELCONTAINEDINSPATIALSTRUCTURE" >>

\* ./src/relToAttributesMap: the static kind -> (forRelating, forRelated) table
relToAttributesMap ==
  [ IFCRELAGGREGATES |->
      [forRelating |-> "IsDecomposedBy", forRelated |-> "Decomposes"],
    IFCRELASSOCIATESMATERIAL |->
      [forRelating |-> "AssociatedTo", forRelated |-> "HasAssociations"],
    IFCRELASSOCIATESCLASSIFICATION |->
      [forRelating |-> "ClassificationForObjects",
       forRelated |-> "HasAssociations"],
    IFCRELASSIGNSTOGROUP |->
      [forRelating |-> "IsGroupedBy", forRelated |-> "HasAssignments"],
    IFCRELDEFINESBYPROPERTIES |->
      [forRelating |-> "DefinesOcurrence", forRelated |-> "IsDefinedBy"],
    IFCRELDEFINESBYTYPE |->
      [forRelating |-> "Types", forRelated |-> "IsTypedBy"],
    IFCRELDEFINESBYTEMPLATE |->
      [forRelating |-> "Defines", forRelated |-> "IsDefinedBy"],
    IFCRELCONTAINEDINSPATIALSTRUCTURE |->
      [forRelating |-> "ContainsElements",
       forRelated |-> "ContainedInStructure"] ]

\* a relation name that is not an inverse attribute of the indexer
UnknownRelationName == "Nests"

RelationNames ==
  {inverseAttributes[i] : i \in 1..Len(inverseAttributes)}
    \cup {UnknownRelationName}

\* Array.prototype.indexOf: the 0-based index of the first occurrence, or -1
indexOf(arr, x) ==
  IF \E i \in 1..Len(arr) : arr[i] = x
    THEN (CHOOSE i \in 1..Len(arr) :
            arr[i] = x /\ \A j \in 1..(i - 1) : arr[j] # x) - 1
    ELSE -1

(* ----------------------- Map (insertion ordered) ---------------------- *)
MapHas(m, k) == \E i \in 1..Len(m) : m[i][1] = k

\* Map.prototype.get, for a key the map has
MapGet(m, k) == m[CHOOSE i \in 1..Len(m) : m[i][1] = k][2]

\* Map.prototype.set: an existing key keeps its position, a new one is appended
MapSet(m, k, v) ==
  IF MapHas(m, k)
    THEN [i \in 1..Len(m) |-> IF m[i][1] = k THEN <<k, v>> ELSE m[i]]
    ELSE Append(m, <<k, v>>)

MapKeys(m) == [i \in 1..Len(m) |-> m[i][1]]

\* the map as a function of its keys, forgetting the insertion order
Unordered(m) ==
  [k \in {m[i][1] : i \in 1..Len(m)} |-> MapGet(m, k)]


\* a slip in "forRelating": the related ids are added to the forward slot
\* instead of replacing it
processForRelatingAccumulate(relationsMap, relating, relatingID, relatedIDs) ==
  LET currentMap == IF MapHas(relationsMap, relatingID)
                      THEN MapGet(relationsMap, relatingID) ELSE << >>
      index == indexOf(inverseAttributes, relating)
      relations == IF MapHas(currentMap, index)
                     THEN MapGet(currentMap, index) ELSE << >>
  IN  MapSet(relationsMap, relatingID,
             MapSet(currentMap, index, relations \o relatedIDs))

(* ------------------ indexing one relation record ---------------------- *)
\* process, the callback handed to getRelationMap: "forRelating".  The slot
\* of the relating entity is set to the related list of this record.
processForRelating(relationsMap, relating, relatingID, relatedIDs) ==
  LET currentMap == IF MapHas(relationsMap, relatingID)
                      THEN MapGet(relationsMap, relatingID) ELSE << >>
      index == indexOf(inverseAttributes, relating)
  IN  MapSet(relationsMap, relatingID, MapSet(currentMap, index, relatedIDs))

\* a slip in "forRelated": the inverse slot is set to the relating id of this
\* record instead of having it pushed
RECURSIVE processForRelatedOverwrite(_, _, _, _)
processForRelatedOverwrite(relationsMap, related, relatingID, relatedIDs) ==
  IF relatedIDs = << >> THEN relationsMap
  ELSE
    LET id == Head(relatedIDs)
        currentMap == IF MapHas(relationsMap, id)
                        THEN MapGet(relationsMap, id) ELSE << >>
        index == indexOf(inverseAttributes, related)
    IN  processForRelatedOverwrite(
          MapSet(relationsMap, id,
                 MapSet(currentMap, index, << relatingID >>)),
          related, relatingID, Tail(relatedIDs))

\* a slip in "forRelated": the relating id is pushed on a new inverse slot
\* only, an existing slot is left as it is
RECURSIVE processForRelatedKeepFirst(_, _, _, _)
processForRelatedKeepFirst(relationsMap, related, relatingID, relatedIDs) ==
  IF relatedIDs = << >> THEN relationsMap
  ELSE
    LET id == Head(relatedIDs)
        currentMap == IF MapHas(relationsMap, id)
                        THEN MapGet(relationsMap, id) ELSE << >>
        index == indexOf(inverseAttributes, related)
    IN  processForRelatedKeepFirst(
          IF MapHas(currentMap, index) THEN relationsMap
          ELSE MapSet(relationsMap, id,
                      MapSet(currentMap, index, << relatingID >>)),
          related, relatingID, Tail(relatedIDs))

\* process, the callback handed to getRelationMap: "forRelated".  Every
\* related entity gets the relating entity pushed on its inverse slot.
RECURSIVE processForRelated(_, _, _, _)
processForRelated(relationsMap, related, relatingID, relatedIDs) ==
  IF relatedIDs = << >> THEN relationsMap
  ELSE
    LET id == Head(relatedIDs)
        currentMap == IF MapHas(relationsMap, id)
                        THEN MapGet(relationsMap, id) ELSE << >>
        index == indexOf(inverseAttributes, related)
        relations == IF MapHas(currentMap, index)
                       THEN MapGet(currentMap, index) ELSE << >>
    IN  processForRelated(
          MapSet(relationsMap, id,
                 MapSet(currentMap, index, Append(relations, relatingID))),
          related, relatingID, Tail(relatedIDs))

\* process, the callback async (relatingID, relatedIDs) => {...} for kind rel
processCallback(relationsMap, rel, relatingID, relatedIDs) ==
  IF rel \notin DOMAIN relToAttributesMap THEN relationsMap
  ELSE
    LET related == relToAttributesMap[rel].forRelated
        relating == relToAttributesMap[rel].forRelating
    IN  processForRelated(
          processForRelating(relationsMap, relating, relatingID, relatedIDs),
          related, relatingID, relatedIDs)

(* the raw attributes web-ifc returns for a relation line.  A key is the  *)
(* pair of its leading word and the rest, so that startsWith is a test on *)
(* the leading word: RelatingObject is <<"Relating", "Object">>.          *)
NoKey == << "", "" >>

startsWith(key, word) == key[1] = word

\* ifcApi.properties.getItemProperties(modelID, line): the attributes of a
\* relation line, as the list of its <<key, value>> in key order, without
\* the attributes the raw record lacks
getItemProperties(line) ==
  SelectSeq(
    << << <<"", "type">>, line.type >>,
       << <<"Relating", "Object">>, [value |-> line.relating] >>,
       << <<"Related", "Objects">>,
          [i \in 1..Len(line.related) |-> [value |-> line.related[i]]] >> >>,
    LAMBDA attr : attr[1][1] \notin line.lacks)

\* Object.keys(relAttrs).find((key) => key.startsWith(word)), NoKey for undefined
findKey(relAttrs, word) ==
  IF \E i \in 1..Len(relAttrs) : startsWith(relAttrs[i][1], word)
    THEN relAttrs[CHOOSE i \in 1..Len(relAttrs) :
                    /\ startsWith(relAttrs[i][1], word)
                    /\ \A j \in 1..(i - 1) :
                         ~startsWith(relAttrs[j][1], word)][1]
    ELSE NoKey

\* a slip in "forRelating" of processFromWebIfc: the related ids are pushed
\* on the slot of the relating entity instead of replacing it
webIfcForRelatingAccumulate(relationsMap, relating, relatingID, relatedIDs) ==
  LET currentMap == IF MapHas(relationsMap, relatingID)
                      THEN MapGet(relationsMap, relatingID) ELSE << >>
      index == indexOf(inverseAttributes, relating)
      relations == IF MapHas(currentMap, index)
                     THEN MapGet(currentMap, index) ELSE << >>
  IN  MapSet(relationsMap, relatingID,
             MapSet(currentMap, index, relations \o relatedIDs))

\* processFromWebIfc: "forRelating"
webIfcForRelating(relationsMap, relating, relatingID, relatedIDs) ==
  LET currentMap == IF MapHas(relationsMap, relatingID)
                      THEN MapGet(relationsMap, relatingID) ELSE << >>
      index == indexOf(inverseAttributes, relating)
  IN  MapSet(relationsMap, relatingID, MapSet(currentMap, index, relatedIDs))

\* processFromWebIfc: "forRelated"
RECURSIVE webIfcForRelated(_, _, _, _)
webIfcForRelated(relationsMap, related, relatingID, relatedIDs) ==
  IF relatedIDs = << >> THEN relationsMap
  ELSE
    LET id == Head(relatedIDs)
        currentMap == IF MapHas(relationsMap, id)
                        THEN MapGet(relationsMap, id) ELSE << >>
        index == indexOf(inverseAttributes, related)
        relations == IF MapHas(currentMap, index)
                       THEN MapGet(currentMap, index) ELSE << >>
    IN  webIfcForRelated(
          MapSet(relationsMap, id,
                 MapSet(currentMap, index, Append(relations, relatingID))),
          related, relatingID, Tail(relatedIDs))

\* a slip in processFromWebIfc: only a missing relating key skips the record,
\* a missing related key is taken as an empty list of related entities
webIfcLineLenient(relationsMap, relType, relAttrs) ==
  LET related == relToAttributesMap[relType].forRelated
      relating == relToAttributesMap[relType].forRelating
      relatingKey == findKey(relAttrs, "Relating")
      relatedKey == findKey(relAttrs, "Related")
  IN  IF relatingKey = NoKey THEN relationsMap
      ELSE
        LET relatingID == MapGet(relAttrs, relatingKey).value
            els == IF relatedKey = NoKey THEN << >>
                   ELSE MapGet(relAttrs, relatedKey)
            relatedIDs == [i \in 1..Len(els) |-> els[i].value]
        IN  webIfcForRelated(
              webIfcForRelating(relationsMap, relating, relatingID,
                                relatedIDs),
              related, relatingID, relatedIDs)

\* processFromWebIfc, the body of the loop over the lines of kind relType,
\* from the attributes relAttrs that the awaited lookup returned
webIfcLine(relationsMap, relType, relAttrs) ==
  LET related == relToAttributesMap[relType].forRelated
      relating == relToAttributesMap[relType].forRelating
      relatingKey == findKey(relAttrs, "Relating")
      relatedKey == findKey(relAttrs, "Related")
  IN  IF relatingKey = NoKey \/ relatedKey = NoKey THEN relationsMap
      ELSE
        LET relatingID == MapGet(relAttrs, relatingKey).value
            els == MapGet(relAttrs, relatedKey)
            relatedIDs == [i \in 1..Len(els) |-> els[i].value]
        IN  webIfcForRelated(
              webIfcForRelating(relationsMap, relating, relatingID,
                                relatedIDs),
              related, relatingID, relatedIDs)

(* --------------------------- serialization ---------------------------- *)
Digits == << "0", "1", "2", "3", "4", "5", "6", "7", "8", "9" >>

\* Number.prototype.toString (base 10), as the sequence of the characters
RECURSIVE toString(_)
toString(n) ==
  IF n < 0 THEN << "-" >> \o toString(0 - n)
  ELSE IF n < 10 THEN << Digits[n + 1] >>
  ELSE toString(n \div 10) \o << Digits[(n % 10) + 1] >>

DigitValue(c) == (CHOOSE i \in 1..10 : Digits[i] = c) - 1

\* Number(string), for the decimal strings toString produces
RECURSIVE NumberOfDigits(_, _)
NumberOfDigits(chars, acc) ==
  IF chars = << >> THEN acc
  ELSE NumberOfDigits(Tail(chars), (10 * acc) + DigitValue(Head(chars)))

Number(chars) ==
  IF Head(chars) = "-" THEN 0 - NumberOfDigits(Tail(chars), 0)
  ELSE NumberOfDigits(chars, 0)

\* a property key is an integer index when it is the canonical decimal form
\* of a non-negative integer
IsIntegerKey(key) == Head(key) # "-"

\* OrdinaryOwnPropertyKeys: key a is enumerated before key b
KeyBefore(a, b) ==
  /\ IsIntegerKey(a)
  /\ (~IsIntegerKey(b) \/ Number(a) < Number(b))

\* object[key] = value: an own property keeps its place; a new integer key
\* is enumerated in ascending numeric order before every other key, a new
\* key of another form comes last
ObjectSet(object, key, value) ==
  IF MapHas(object, key)
    THEN [i \in 1..Len(object) |->
            IF object[i][1] = key THEN <<key, value>> ELSE object[i]]
  ELSE IF ~IsIntegerKey(key) THEN Append(object, <<key, value>>)
  ELSE
    LET n == Cardinality({i \in 1..Len(object) : KeyBefore(object[i][1], key)})
    IN  SubSeq(object, 1, n) \o << <<key, value>> >>
          \o SubSeq(object, n + 1, Len(object))

\* serializeRelations, the inner loop: object[expressID][relationID] = ...
RECURSIVE serializeSlots(_, _)
serializeSlots(inner, relations) ==
  IF relations = << >> THEN inner
  ELSE serializeSlots(
         ObjectSet(inner, toString(Head(relations)[1]), Head(relations)[2]),
         Tail(relations))

\* serializeRelations, the outer loop over relationMap.entries()
RECURSIVE serializeEntries(_, _)
serializeEntries(object, entries) ==
  IF entries = << >> THEN object
  ELSE
    LET expressID == toString(Head(entries)[1])
        relations == Head(entries)[2]
        inner == IF MapHas(object, expressID)
                   THEN MapGet(object, expressID) ELSE << >>
    IN  serializeEntries(
          ObjectSet(object, expressID, serializeSlots(inner, relations)),
          Tail(entries))

(* JSON text is the sequence of its tokens: punctuation, key strings and  *)
(* numbers.                                                               *)
Punct(c) == [t |-> c]

RECURSIVE Join(_, _)
Join(parts, sep) ==
  IF parts = << >> THEN << >>
  ELSE IF Len(parts) = 1 THEN parts[1]
  ELSE parts[1] \o << sep >> \o Join(Tail(parts), sep)

stringifyArray(arr) ==
  << Punct("[") >>
    \o Join([i \in 1..Len(arr) |-> << [t |-> "num", v |-> arr[i]] >>],
            Punct(","))
    \o << Punct("]") >>

stringifySlots(inner) ==
  << Punct("{") >>
    \o Join([i \in 1..Len(inner) |->
               << [t |-> "str", v |-> inner[i][1]], Punct(":") >>
                 \o stringifyArray(inner[i][2])],
            Punct(","))
    \o << Punct("}") >>

\* JSON.stringify of an object of objects of number arrays
JSONstringify(object) ==
  << Punct("{") >>
    \o Join([i \in 1..Len(object) |->
               << [t |-> "str", v |-> object[i][1]], Punct(":") >>
                 \o stringifySlots(object[i][2])],
            Punct(","))
    \o << Punct("}") >>

\* serializeRelations(relationMap)
serializeRelations(relationMap) ==
  JSONstringify(serializeEntries(<< >>, relationMap))

(* JSON.parse, by recursive descent.  Each parser takes the tokens and a  *)
(* position and gives [val, next]: the value read and the position after. *)
RECURSIVE parseArray(_, _, _)
parseArray(toks, i, acc) ==
  IF toks[i].t = "]" THEN [val |-> acc, next |-> i + 1]
  ELSE IF toks[i].t = "," THEN parseArray(toks, i + 1, acc)
  ELSE parseArray(toks, i + 1, Append(acc, toks[i].v))

RECURSIVE parseSlots(_, _, _)
parseSlots(toks, i, acc) ==
  IF toks[i].t = "}" THEN [val |-> acc, next |-> i + 1]
  ELSE IF toks[i].t = "," THEN parseSlots(toks, i + 1, acc)
  ELSE
    LET arr == parseArray(toks, i + 3, << >>)
    IN  parseSlots(toks, arr.next, ObjectSet(acc, toks[i].v, arr.val))

RECURSIVE parseObject(_, _, _)
parseObject(toks, i, acc) ==
  IF toks[i].t = "}" THEN [val |-> acc, next |-> i + 1]
  ELSE IF toks[i].t = "," THEN parseObject(toks, i + 1, acc)
  ELSE
    LET inner == parseSlots(toks, i + 3, << >>)
    IN  parseObject(toks, inner.next, ObjectSet(acc, toks[i].v, inner.val))

JSONparse(json) == parseObject(json, 2, << >>).val

\* getRelationsMapFromJSON, the inner loop: for (const relationID in ...)
RECURSIVE slotsFromJSON(_, _)
slotsFromJSON(relationMap, expressIDRelations) ==
  IF expressIDRelations = << >> THEN relationMap
  ELSE slotsFromJSON(
         MapSet(relationMap, Number(Head(expressIDRelations)[1]),
                Head(expressIDRelations)[2]),
         Tail(expressIDRelations))

\* a slip in getRelationsMapFromJSON: "const relationMap = new Map()" hoisted
\* out of the outer loop, so that every entity gets the one shared slot table
RECURSIVE sharedSlotsFromJSON(_, _)
sharedSlotsFromJSON(relationMap, relations) ==
  IF relations = << >> THEN relationMap
  ELSE sharedSlotsFromJSON(slotsFromJSON(relationMap, Head(relations)[2]),
                           Tail(relations))

entriesFromJSONSharedSlots(indexMap, relations) ==
  [i \in 1..Len(relations) |->
     << Number(relations[i][1]), sharedSlotsFromJSON(<< >>, relations) >>]

\* getRelationsMapFromJSON, the outer loop: for (const expressID in relations)
RECURSIVE entriesFromJSON(_, _)
entriesFromJSON(indexMap, relations) ==
  IF relations = << >> THEN indexMap
  ELSE entriesFromJSON(
         MapSet(indexMap, Number(Head(relations)[1]),
                slotsFromJSON(<< >>, Head(relations)[2])),
         Tail(relations))

\* getRelationsMapFromJSON(json)
getRelationsMapFromJSON(json) == entriesFromJSON(<< >>, JSONparse(json))

(* ------------------------------- state -------------------------------- *)
VARIABLES
  records,       \* the relation lines of the loaded file, in file order
  relationMaps,  \* this.relationMaps: model uuid -> map object
  json,          \* the text the application last got from serializeModelRelations
  pc,            \* per caller: where its call is suspended
  call,          \* per caller: the operation and argument of its current or last call
  cursor,        \* per caller: how many relation lines its build has consumed
  relationsMap,  \* per caller: the local relationsMap of its build
  ret,           \* per caller: how its last call ended and what it returned
  fired,         \* per caller: the payloads its current or last call handed to
                 \* onRelationsIndexed.trigger, in order
  stale,         \* the callers whose current or last process call was suspended in
                 \* its build of a model when the disposal of that model was handled
  facet,         \* the fields of the IDSProperty instance under test
  properties,    \* what model.getProperties has answered so far, by expressID
  testResult,    \* this.testResult of the facet: the array it refers to
  arrays,        \* the arrays of results made so far; an array is its place here
  results,       \* the IDSCheckResult objects made so far, likewise
  frame          \* per caller: where its test call is suspended, and its locals

indexerVars == << records, relationMaps, json, pc, call, cursor, relationsMap,
                  ret, fired, stale >>

facetVars == << facet, properties, testResult, arrays, results, frame >>

vars == << records, relationMaps, json, pc, call, cursor, relationsMap, ret,
           fired, stale, facet, properties, testResult, arrays, results, frame >>

Procs == 1..NumProcs

\* model.uuid of the two FragmentsGroup models; g1 has its properties loaded
\* (the file), g2 has none
g1 == << "g", "1" >>
g2 == << "g", "2" >>
Models == {g1, g2}
NoModel == << >>

\* the web-ifc model id under which the same file is open in the IfcAPI
WebIfcModelID == 0

\* model.hasProperties
hasProperties(model) == model = g1

NoMap == [ref |-> 0, entries |-> << >>]
NoCall == [op |-> "none", model |-> NoModel, modelID |-> -1]
NoRet == [kind |-> "none", value |-> NoMap]
JsonNull == [isNull |-> TRUE, text |-> << >>]

(* ------------------------------ inputs -------------------------------- *)
Ids == 1..MaxId

RelatedLists == UNION {[1..n -> Ids] : n \in 0..MaxRelated}

InputKinds ==
  {ifcRels[i] : i \in {j \in 1..Len(ifcRels) : j <= NumKinds}}

\* a well-formed relation line: its raw record lacks no attribute
Lines ==
  [type : InputKinds, relating : Ids, related : RelatedLists, lacks : {{}}]

\* a relation line whose raw record may lack its relating attribute, its
\* related attribute or both
RawLines ==
  [type : InputKinds, relating : Ids, related : RelatedLists,
   lacks : SUBSET {"Relating", "Related"}]

RawFiles(maxLen) == UNION {[1..n -> RawLines] : n \in 0..maxLen}

Files(maxLen) == UNION {[1..n -> Lines] : n \in 0..maxLen}

\* the lines of one kind, in file order: what getRelationMap(model, rel, cb)
\* hands to cb one by one, and what GetLineIDsWithType(modelID, relType) lists
linesWithType(file, relType) ==
  SelectSeq(file, LAMBDA line : line.type = relType)

\* the lines in the order the loop "for (const rel of this._ifcRels)" meets them
RECURSIVE linesFrom(_, _)
linesFrom(file, i) ==
  IF i > Len(ifcRels) THEN << >>
  ELSE linesWithType(file, ifcRels[i]) \o linesFrom(file, i + 1)

processOrder(file) == linesFrom(file, 1)

\* the lines in the order the loop meets them when it goes through the
\* relation kinds in the order of the list kinds
RECURSIVE linesInOrder(_, _)
linesInOrder(file, kinds) ==
  IF kinds = << >> THEN << >>
  ELSE linesWithType(file, Head(kinds)) \o linesInOrder(file, Tail(kinds))

(* --------------------------- object identity -------------------------- *)
\* the refs of the map objects something still refers to
Live ==
  {relationMaps[g].ref : g \in DOMAIN relationMaps}
    \cup {relationsMap[p].ref : p \in Procs}
    \cup {ret[p].value.ref : p \in Procs}

\* new Map(): an identity no live object has
FreshRef ==
  CHOOSE n \in 1..(Cardinality(Live) + 1) :
    n \notin Live /\ \A m \in 1..(n - 1) : m \in Live

(* ------------------------------ queries ------------------------------- *)
Null == [isNull |-> TRUE, value |-> << >>]
Value(v) == [isNull |-> FALSE, value |-> v]

\* a slip in getEntityRelations: "if (!relations.length) return null"
getEntityRelationsEmptyIsNull(model, expressID, relationName) ==
  IF model \notin DOMAIN relationMaps THEN Null
  ELSE
    LET indexMap == relationMaps[model].entries
        attributeIndex == indexOf(inverseAttributes, relationName)
    IN  IF ~MapHas(indexMap, expressID) \/ attributeIndex = -1 THEN Null
        ELSE
          LET entityRelations == MapGet(indexMap, expressID)
          IN  IF ~MapHas(entityRelations, attributeIndex) THEN Null
              ELSE IF MapGet(entityRelations, attributeIndex) = << >> THEN Null
              ELSE Value(MapGet(entityRelations, attributeIndex))

\* getEntityRelations(model, expressID, relationName)
getEntityRelations(model, expressID, relationName) ==
  IF model \notin DOMAIN relationMaps THEN Null
  ELSE
    LET indexMap == relationMaps[model].entries
        attributeIndex == indexOf(inverseAttributes, relationName)
    IN  IF ~MapHas(indexMap, expressID) \/ attributeIndex = -1 THEN Null
        ELSE
          LET entityRelations == MapGet(indexMap, expressID)
          IN  IF ~MapHas(entityRelations, attributeIndex) THEN Null
              ELSE Value(MapGet(entityRelations, attributeIndex))

(* ------------------------------ actions ------------------------------- *)
\* the locals of a test call: where it is suspended (at), its arguments, the
\* place i of its entity and its result object, what is left of the
\* definitions and handles getPsets goes through, what getPsets has gathered,
\* the answer that is awaited, the array the call made for the buffer when
\* it began, and the array it returned
IdleFrame ==
  [at |-> "idle", model |-> NoModel, entities |-> << >>, i |-> 0, result |-> 0,
   definitions |-> << >>, sets |-> << >>, attrsClone |-> [isNull |-> TRUE],
   handles |-> << >>, props |-> << >>, awaited |-> [isNull |-> TRUE],
   buffer |-> 0, ret |-> 0]

\* no test call has been made on the facet
FacetQuiet ==
  /\ properties = << >>
  /\ testResult = 1
  /\ arrays = << << >> >>
  /\ results = << >>
  /\ frame = [p \in Procs |-> IdleFrame]

NoFacet ==
  [propertySet |-> [type |-> "none"], baseName |-> [type |-> "none"],
   value |-> [type |-> "none"], dataType |-> [has |-> FALSE],
   cardinality |-> "required"]

Quiet ==
  /\ facet = NoFacet
  /\ FacetQuiet
  /\ relationMaps = << >>
  /\ json = JsonNull
  /\ pc = [p \in Procs |-> "idle"]
  /\ call = [p \in Procs |-> NoCall]
  /\ cursor = [p \in Procs |-> 0]
  /\ relationsMap = [p \in Procs |-> NoMap]
  /\ ret = [p \in Procs |-> NoRet]
  /\ fired = [p \in Procs |-> << >>]
  /\ stale = {}

Init == records \in Files(MaxLifecycleRecords) /\ Quiet

InitIndex == records \in Files(MaxRecords) /\ Quiet

\* this.relationMaps[uuid] = relationMap
Store(maps, uuid, relationMap) ==
  [g \in (DOMAIN maps) \cup {uuid} |->
     IF g = uuid THEN relationMap ELSE maps[g]]

\* delete this.relationMaps[uuid]
Delete(maps, uuid) == [g \in (DOMAIN maps) \ {uuid} |-> maps[g]]

\* a slip in setRelationMap: the map is stored and no event is triggered
setRelationMapSilent(p, model, relationMap) ==
  /\ relationMaps' = Store(relationMaps, model, relationMap)
  /\ fired' = fired

\* setRelationMap(model, relationMap), called by caller p
setRelationMap(p, model, relationMap) ==
  /\ relationMaps' = Store(relationMaps, model, relationMap)
  /\ fired' = [fired EXCEPT ![p] =
                 Append(@, [modelID |-> model, relationsMap |-> relationMap])]

\* the callers whose process call on the model is suspended in its build
inBuild(groupID) ==
  {p \in Procs : pc[p] = "process" /\ call[p].model = groupID}

\* a slip in onFragmentsDisposed: every map is dropped, as dispose() does
onFragmentsDisposedAll(groupID) ==
  /\ relationMaps' = << >>
  /\ stale' = stale \cup inBuild(groupID)
  /\ UNCHANGED << records, json, pc, call, cursor, relationsMap, ret, fired >>

\* onFragmentsDisposed({groupID, fragmentIDs})
onFragmentsDisposed(groupID) ==
  /\ relationMaps' = Delete(relationMaps, groupID)
  /\ stale' = stale \cup inBuild(groupID)
  /\ UNCHANGED << records, json, pc, call, cursor, relationsMap, ret, fired >>

\* a slip in process: the stored map is not looked up, every call builds
processStartNoMemo(p, model) ==
  /\ pc[p] = "idle"
  /\ call' = [call EXCEPT ![p] =
                [op |-> "process", model |-> model, modelID |-> -1]]
  /\ fired' = [fired EXCEPT ![p] = << >>]
  /\ IF ~hasProperties(model)
       THEN /\ ret' = [ret EXCEPT ![p] = [kind |-> "thrown", value |-> NoMap]]
            /\ UNCHANGED << pc, cursor, relationsMap >>
     ELSE /\ relationsMap' = [relationsMap EXCEPT ![p] =
                                [ref |-> FreshRef, entries |-> << >>]]
          /\ ret' = [ret EXCEPT ![p] = NoRet]
          /\ pc' = [pc EXCEPT ![p] = "process"]
          /\ cursor' = [cursor EXCEPT ![p] = 0]
  /\ stale' = stale \ {p}
  /\ UNCHANGED << records, relationMaps, json >>

\* a slip in process: the stored map is looked up before model.hasProperties
processStartMemoFirst(p, model) ==
  /\ pc[p] = "idle"
  /\ call' = [call EXCEPT ![p] =
                [op |-> "process", model |-> model, modelID |-> -1]]
  /\ fired' = [fired EXCEPT ![p] = << >>]
  /\ IF model \in DOMAIN relationMaps
       THEN /\ ret' = [ret EXCEPT ![p] =
                         [kind |-> "memoized", value |-> relationMaps[model]]]
            /\ UNCHANGED << pc, cursor, relationsMap >>
     ELSE IF ~hasProperties(model)
       THEN /\ ret' = [ret EXCEPT ![p] = [kind |-> "thrown", value |-> NoMap]]
            /\ UNCHANGED << pc, cursor, relationsMap >>
     ELSE /\ relationsMap' = [relationsMap EXCEPT ![p] =
                                [ref |-> FreshRef, entries |-> << >>]]
          /\ ret' = [ret EXCEPT ![p] = NoRet]
          /\ pc' = [pc EXCEPT ![p] = "process"]
          /\ cursor' = [cursor EXCEPT ![p] = 0]
  /\ stale' = stale \ {p}
  /\ UNCHANGED << records, relationMaps, json >>

\* process(model), from the call to the first await (or to its early end)
processStart(p, model) ==
  /\ pc[p] = "idle"
  /\ call' = [call EXCEPT ![p] =
                [op |-> "process", model |-> model, modelID |-> -1]]
  /\ fired' = [fired EXCEPT ![p] = << >>]
  /\ IF ~hasProperties(model)
       THEN /\ ret' = [ret EXCEPT ![p] = [kind |-> "thrown", value |-> NoMap]]
            /\ UNCHANGED << pc, cursor, relationsMap >>
     ELSE IF model \in DOMAIN relationMaps
       THEN /\ ret' = [ret EXCEPT ![p] =
                         [kind |-> "memoized", value |-> relationMaps[model]]]
            /\ UNCHANGED << pc, cursor, relationsMap >>
     ELSE /\ relationsMap' = [relationsMap EXCEPT ![p] =
                                [ref |-> FreshRef, entries |-> << >>]]
          /\ ret' = [ret EXCEPT ![p] = NoRet]
          /\ pc' = [pc EXCEPT ![p] = "process"]
          /\ cursor' = [cursor EXCEPT ![p] = 0]
  /\ stale' = stale \ {p}
  /\ UNCHANGED << records, relationMaps, json >>

\* process(model), resumed for the next relation line: one run of the callback
processStep(p) ==
  /\ pc[p] = "process"
  /\ cursor[p] < Len(processOrder(records))
  /\ LET line == processOrder(records)[cursor[p] + 1]
     IN  relationsMap' = [relationsMap EXCEPT ![p].entries =
           processCallback(@, line.type, line.relating, line.related)]
  /\ cursor' = [cursor EXCEPT ![p] = @ + 1]
  /\ UNCHANGED << records, relationMaps, json, pc, call, ret, fired, stale >>

\* process(model), resumed after the last getRelationMap: store and return
processFinish(p) ==
  /\ pc[p] = "process"
  /\ cursor[p] = Len(processOrder(records))
  /\ setRelationMap(p, call[p].model, relationsMap[p])
  /\ ret' = [ret EXCEPT ![p] = [kind |-> "built", value |-> relationsMap[p]]]
  /\ pc' = [pc EXCEPT ![p] = "idle"]
  /\ cursor' = [cursor EXCEPT ![p] = 0]
  /\ relationsMap' = [relationsMap EXCEPT ![p] = NoMap]
  /\ UNCHANGED << records, json, call, stale >>

\* a slip in processFromWebIfc: its end hands out the map stored for the
\* model with properties, when there is one, as process does
webIfcReturnMemoized(p, modelID, map) ==
  LET relationsMapOut == IF g1 \in DOMAIN relationMaps
                           THEN relationMaps[g1] ELSE map
  IN  /\ fired' = [fired EXCEPT ![p] =
                     << [modelID |-> toString(modelID),
                         relationsMap |-> relationsMapOut] >>]
      /\ ret' = [ret EXCEPT ![p] =
                   [kind |-> "webifc", value |-> relationsMapOut]]
      /\ pc' = [pc EXCEPT ![p] = "idle"]
      /\ cursor' = [cursor EXCEPT ![p] = 0]
      /\ relationsMap' = [relationsMap EXCEPT ![p] = NoMap]

\* processFromWebIfc, its end: trigger onRelationsIndexed and return the map
webIfcReturn(p, modelID, map) ==
  /\ fired' = [fired EXCEPT ![p] =
                 << [modelID |-> toString(modelID), relationsMap |-> map] >>]
  /\ ret' = [ret EXCEPT ![p] = [kind |-> "webifc", value |-> map]]
  /\ pc' = [pc EXCEPT ![p] = "idle"]
  /\ cursor' = [cursor EXCEPT ![p] = 0]
  /\ relationsMap' = [relationsMap EXCEPT ![p] = NoMap]

\* processFromWebIfc(ifcApi, modelID), from the call to the first await; with
\* no relation line it never awaits and runs to its end
processFromWebIfcStart(p, modelID) ==
  /\ pc[p] = "idle"
  /\ call' = [call EXCEPT ![p] =
                [op |-> "processFromWebIfc", model |-> NoModel,
                 modelID |-> modelID]]
  /\ LET map == [ref |-> FreshRef, entries |-> << >>]
     IN  IF Len(processOrder(records)) = 0
           THEN webIfcReturn(p, modelID, map)
           ELSE /\ relationsMap' = [relationsMap EXCEPT ![p] = map]
                /\ fired' = [fired EXCEPT ![p] = << >>]
                /\ ret' = [ret EXCEPT ![p] = NoRet]
                /\ pc' = [pc EXCEPT ![p] = "webifc"]
                /\ cursor' = [cursor EXCEPT ![p] = 0]
  /\ UNCHANGED << records, relationMaps, json, stale >>

\* processFromWebIfc, resumed with the attributes of the next relation line;
\* after the last line it runs to its end
processFromWebIfcStep(p) ==
  /\ pc[p] = "webifc"
  /\ LET line == processOrder(records)[cursor[p] + 1]
         map == [relationsMap[p] EXCEPT !.entries =
                   webIfcLine(@, line.type, getItemProperties(line))]
     IN  IF cursor[p] + 1 = Len(processOrder(records))
           THEN webIfcReturn(p, call[p].modelID, map)
           ELSE /\ relationsMap' = [relationsMap EXCEPT ![p] = map]
                /\ cursor' = [cursor EXCEPT ![p] = @ + 1]
                /\ UNCHANGED << fired, ret, pc >>
  /\ UNCHANGED << records, relationMaps, json, call, stale >>

\* serializeModelRelations(model), the application keeping the text
serializeModelRelations(model) ==
  /\ json' = IF model \notin DOMAIN relationMaps THEN JsonNull
             ELSE [isNull |-> FALSE,
                   text |-> serializeRelations(relationMaps[model].entries)]
  /\ UNCHANGED << records, relationMaps, pc, call, cursor, relationsMap, ret,
                  fired, stale >>

\* setRelationMap(model, getRelationsMapFromJSON(json)): caller p restores
\* the relations of a model from the text the application kept
restoreRelations(p, model) ==
  /\ pc[p] = "idle"
  /\ ~json.isNull
  /\ call' = [call EXCEPT ![p] =
                [op |-> "setRelationMap", model |-> model, modelID |-> -1]]
  /\ ret' = [ret EXCEPT ![p] = NoRet]
  /\ relationMaps' =
       Store(relationMaps, model,
             [ref |-> FreshRef,
              entries |-> getRelationsMapFromJSON(json.text)])
  /\ fired' = [fired EXCEPT ![p] =
                 << [modelID |-> model, relationsMap |-> relationMaps'[model]] >>]
  /\ UNCHANGED << records, json, pc, cursor, relationsMap, stale >>

(* overlapping calls of process and processFromWebIfc, and disposal *)
Next ==
  \/ \E p \in Procs, model \in Models : processStart(p, model) /\ UNCHANGED facetVars
  \/ \E p \in Procs : processStep(p) /\ UNCHANGED facetVars
  \/ \E p \in Procs : processFinish(p) /\ UNCHANGED facetVars
  \/ \E p \in Procs : processFromWebIfcStart(p, WebIfcModelID) /\ UNCHANGED facetVars
  \/ \E p \in Procs : processFromWebIfcStep(p) /\ UNCHANGED facetVars
  \/ \E groupID \in Models : onFragmentsDisposed(groupID) /\ UNCHANGED facetVars

Spec == Init /\ [][Next]_vars

(* one caller indexing files of up to MaxRecords lines on both paths *)
NextIndex ==
  \/ \E model \in Models : processStart(1, model) /\ UNCHANGED facetVars
  \/ processStep(1) /\ UNCHANGED facetVars
  \/ processFinish(1) /\ UNCHANGED facetVars
  \/ processFromWebIfcStart(1, WebIfcModelID) /\ UNCHANGED facetVars
  \/ processFromWebIfcStep(1) /\ UNCHANGED facetVars

SpecIndex == InitIndex /\ [][NextIndex]_vars

(* one caller indexing, on the web-ifc path, files of up to MaxRecords    *)
(* lines whose raw records may lack attributes                            *)
InitRaw == records \in RawFiles(MaxRecords) /\ Quiet

NextRaw ==
  \/ processFromWebIfcStart(1, WebIfcModelID) /\ UNCHANGED facetVars
  \/ processFromWebIfcStep(1) /\ UNCHANGED facetVars

SpecRaw == InitRaw /\ [][NextRaw]_vars

(* one caller indexing, disposing of, serializing and restoring maps *)
NextStore ==
  \/ \E model \in Models : processStart(1, model) /\ UNCHANGED facetVars
  \/ processStep(1) /\ UNCHANGED facetVars
  \/ processFinish(1) /\ UNCHANGED facetVars
  \/ \E groupID \in Models : onFragmentsDisposed(groupID) /\ UNCHANGED facetVars
  \/ \E model \in Models : serializeModelRelations(model) /\ UNCHANGED facetVars
  \/ \E model \in Models : restoreRelations(1, model) /\ UNCHANGED facetVars

SpecStore == Init /\ [][NextStore]_vars

(* ======================= properties of the indexer ==================== *)
InSeq(x, list) == \E n \in 1..Len(list) : list[n] = x

\* the 14 inverse attributes
KnownRelationNames == {inverseAttributes[i] : i \in 1..Len(inverseAttributes)}

\* the slot index of an inverse attribute
SlotIndex(relationName) ==
  (CHOOSE i \in 1..Len(inverseAttributes) :
     inverseAttributes[i] = relationName) - 1

\* the lines of the file that process indexes
IndexedLines == {i \in 1..Len(records) : records[i].type \in DOMAIN relToAttributesMap}

(* C1: once process has completed and stored the map of a model, for     *)
(* every relation line (k, r, E) of the file and every e in E, the       *)
(* query getEntityRelations(model, e, forRelated(k)) gives a list, not   *)
(* null, and r is in it.                                                  *)
C1_InverseContainsRelating ==
  \A g \in DOMAIN relationMaps : \A i \in IndexedLines :
    \A j \in 1..Len(records[i].related) :
      LET answer == getEntityRelations(
                      g, records[i].related[j],
                      relToAttributesMap[records[i].type].forRelated)
      IN  /\ ~answer.isNull
          /\ InSeq(records[i].relating, answer.value)

\* process has completed on a file where two lines relate the same entity
\* to two different relating entities through the same inverse attribute
C1_Witness ==
  /\ g1 \in DOMAIN relationMaps
  /\ ret[1].kind = "built"
  /\ \E i, k \in IndexedLines :
       /\ i # k
       /\ relToAttributesMap[records[i].type].forRelated
            = relToAttributesMap[records[k].type].forRelated
       /\ records[i].relating # records[k].relating
       /\ \E e \in Ids : /\ InSeq(e, records[i].related)
                         /\ InSeq(e, records[k].related)

(* C2: once process has completed and stored the map of a model, for     *)
(* every relation line (k, r, E) of the file the query                   *)
(* getEntityRelations(model, r, forRelating(k)) gives exactly E, also    *)
(* when r is the relating entity of several lines.                        *)
C2_ForwardExact ==
  \A g \in DOMAIN relationMaps : \A i \in IndexedLines :
    getEntityRelations(g, records[i].relating,
                       relToAttributesMap[records[i].type].forRelating)
      = Value(records[i].related)

(* C4: getEntityRelations gives null when the model has no stored map,   *)
(* when the entity has no slot table, when the relation name is not one  *)
(* of the 14 inverse attributes, or when the entity has no slot for it;  *)
(* otherwise it gives the list of the slot, and so the empty list only   *)
(* for a slot that exists and is empty.                                   *)
C4_NullCases ==
  \A g \in Models, id \in 1..(MaxId + 1), relationName \in RelationNames :
    LET answer == getEntityRelations(g, id, relationName)
        hasSlot ==
          /\ g \in DOMAIN relationMaps
          /\ relationName \in KnownRelationNames
          /\ id \in DOMAIN Unordered(relationMaps[g].entries)
          /\ SlotIndex(relationName)
               \in DOMAIN Unordered(Unordered(relationMaps[g].entries)[id])
    IN  /\ answer.isNull <=> ~hasSlot
        /\ hasSlot =>
             answer.value =
               Unordered(Unordered(relationMaps[g].entries)[id])[
                 SlotIndex(relationName)]
        /\ answer = Value(<< >>) => hasSlot

\* a stored map in which an entity has an empty slot (a line with an empty
\* related list): the query gives the empty list for it, null for another
\* slot of the same entity and null for an entity that is not in the map
C4_Witness ==
  /\ g1 \in DOMAIN relationMaps
  /\ g2 \notin DOMAIN relationMaps
  /\ \E id \in Ids, other \in Ids, relationName \in KnownRelationNames,
        missing \in KnownRelationNames :
       /\ getEntityRelations(g1, id, relationName) = Value(<< >>)
       /\ getEntityRelations(g1, id, missing) = Null
       /\ getEntityRelations(g1, other, relationName) = Null
       /\ ~MapHas(relationMaps[g1].entries, other)
       /\ getEntityRelations(g1, id, UnknownRelationName) = Null

(* C8: for the same well-formed relation lines, the map processFromWebIfc *)
(* returns equals the map process built and stored: the same entities in  *)
(* the same order, the same slots, the same lists in the same order.      *)
C8_PathsAgree ==
  \A p \in Procs :
    (g1 \in DOMAIN relationMaps /\ ret[p].kind = "webifc")
      => ret[p].value.entries = relationMaps[g1].entries

\* both paths have indexed a file of two lines of one kind with the same
\* relating entity
C8_Witness ==
  /\ g1 \in DOMAIN relationMaps
  /\ ret[1].kind = "webifc"
  /\ Len(records) = 2
  /\ records[1].type = records[2].type
  /\ records[1].relating = records[2].relating
  /\ records[1].related # << >>
  /\ records[2].related # << >>
  /\ records[1].related # records[2].related

(* ------------------- calls, disposal, notifications ------------------- *)
\* this step is caller p making a call: p was idle and its own state changes
CallBegins(p) ==
  /\ pc[p] = "idle"
  /\ << pc[p], call[p], ret[p], fired[p], relationsMap[p] >>'
       # << pc[p], call[p], ret[p], fired[p], relationsMap[p] >>

ProcessCall(model) == [op |-> "process", model |-> model, modelID |-> -1]

\* the map the loop of process builds from all the lines of a file
RECURSIVE indexAll(_, _)
indexAll(map, lines) ==
  IF lines = << >> THEN map
  ELSE indexAll(processCallback(map, Head(lines).type, Head(lines).relating,
                                Head(lines).related),
                Tail(lines))

(* C3: a process call on a model that has its properties and a stored    *)
(* map returns that very map object, leaves every stored map as it is    *)
(* (no slot gains or loses an entry), does not start a build (the record *)
(* source is not consulted) and triggers nothing.                         *)
C3_Idempotent ==
  [][\A p \in Procs, g \in Models :
       ( /\ CallBegins(p)
         /\ call'[p] = ProcessCall(g)
         /\ hasProperties(g)
         /\ g \in DOMAIN relationMaps )
       => /\ ret'[p] = [kind |-> "memoized", value |-> relationMaps[g]]
          /\ relationMaps' = relationMaps
          /\ pc'[p] = "idle"
          /\ cursor'[p] = 0
          /\ relationsMap'[p] = NoMap
          /\ fired'[p] = << >>]_vars

\* a second process call has returned the stored, non-empty map
C3_Witness ==
  \E p \in Procs :
    /\ ret[p].kind = "memoized"
    /\ call[p].model \in DOMAIN relationMaps
    /\ ret[p].value = relationMaps[call[p].model]
    /\ ret[p].value.entries # << >>

(* C7: no two process calls for the same model are suspended in their    *)
(* build at the same time: a second call blocks or is rejected.           *)
C7_NonReentrant ==
  \A p, q \in Procs :
    (p # q /\ pc[p] = "process" /\ pc[q] = "process")
      => call[p].model # call[q].model

(* C9: a process call that builds fires onRelationsIndexed exactly once, *)
(* when it completes, with the uuid of its model and the map it returns, *)
(* and at that moment the map holds every line of the file and is the    *)
(* one stored; a processFromWebIfc call fires exactly once with the map  *)
(* it returns; a call that returns the stored map or throws, and a call  *)
(* still in progress, has fired nothing.                                  *)
C9_FiredInv ==
  \A p \in Procs :
    /\ pc[p] # "idle" => fired[p] = << >>
    /\ ret[p].kind = "built" =>
         fired[p] = << [modelID |-> call[p].model,
                        relationsMap |-> ret[p].value] >>
    /\ ret[p].kind = "webifc" =>
         /\ Len(fired[p]) = 1
         /\ fired[p][1].relationsMap = ret[p].value
    /\ ret[p].kind \in {"memoized", "thrown"} => fired[p] = << >>

C9_FiredStep ==
  \A p \in Procs :
    (fired'[p] # fired[p] /\ fired'[p] # << >>) =>
      \/ /\ pc[p] = "process"
         /\ cursor[p] = Len(processOrder(records))
         /\ relationsMap[p].entries = indexAll(<< >>, processOrder(records))
         /\ call[p].model \in DOMAIN relationMaps'
         /\ relationMaps'[call[p].model] = relationsMap[p]
         /\ fired'[p][1].relationsMap = relationsMap[p]
         /\ ret'[p].kind = "built"
      \/ /\ call'[p].op = "processFromWebIfc"
         /\ ret'[p].kind = "webifc"

\* C9: what each caller has fired agrees with how its call ended, in every
\* state, and every trigger happens at the end of a build
C9_NotifiedOnce == []C9_FiredInv /\ [][C9_FiredStep]_vars

\* one caller has built and stored a non-empty map and fired once, another
\* has got that map back from the store and fired nothing
C9_Witness ==
  \E p, q \in Procs :
    /\ ret[p].kind = "built" /\ Len(fired[p]) = 1
    /\ ret[p].value.entries # << >>
    /\ ret[q].kind = "memoized" /\ fired[q] = << >>
    /\ ret[q].value = ret[p].value

(* C10: a process call on a model without properties throws, whether or  *)
(* not a map is stored for that model; every stored map, the kept text   *)
(* and the other callers are left as they were, nothing is triggered.    *)
C10_Precondition ==
  [][\A p \in Procs, g \in Models :
       ( /\ CallBegins(p)
         /\ call'[p] = ProcessCall(g)
         /\ ~hasProperties(g) )
       => /\ ret'[p] = [kind |-> "thrown", value |-> NoMap]
          /\ pc'[p] = "idle"
          /\ fired'[p] = << >>
          /\ relationMaps' = relationMaps
          /\ json' = json
          /\ \A q \in Procs \ {p} :
               << pc[q], call[q], ret[q], fired[q], relationsMap[q] >>'
                 = << pc[q], call[q], ret[q], fired[q], relationsMap[q] >>]_vars

\* process has thrown for a model that has a stored map
C10_Witness ==
  \E p \in Procs :
    /\ ret[p].kind = "thrown"
    /\ call[p].op = "process"
    /\ call[p].model \in DOMAIN relationMaps
    /\ relationMaps[call[p].model].entries # << >>

(* C6: handling the disposal of model g removes the map stored for g and *)
(* leaves the maps of the other models as they are; while no map is      *)
(* stored for g every query on g gives null; a map is stored for g again *)
(* only by setRelationMap, which triggers onRelationsIndexed for g; and  *)
(* the next process call on g starts a build from an empty map, which    *)
(* ends by storing the map of all the lines of the file.                  *)
C6_QueriesNull ==
  \A g \in Models \ DOMAIN relationMaps :
    \A id \in Ids, relationName \in RelationNames :
      getEntityRelations(g, id, relationName) = Null

C6_DisposalStep ==
  \A g \in Models :
    /\ onFragmentsDisposed(g) =>
         /\ g \notin DOMAIN relationMaps'
         /\ \A h \in Models \ {g} :
              /\ h \in DOMAIN relationMaps <=> h \in DOMAIN relationMaps'
              /\ h \in DOMAIN relationMaps =>
                   relationMaps'[h] = relationMaps[h]
    /\ (g \notin DOMAIN relationMaps /\ g \in DOMAIN relationMaps') =>
         \E p \in Procs :
           /\ fired'[p] # << >>
           /\ fired'[p][Len(fired'[p])]
                = [modelID |-> g, relationsMap |-> relationMaps'[g]]
    /\ \A p \in Procs :
         /\ ( /\ CallBegins(p)
              /\ call'[p] = ProcessCall(g)
              /\ hasProperties(g)
              /\ g \notin DOMAIN relationMaps )
            => /\ pc'[p] = "process"
               /\ relationsMap'[p].entries = << >>
               /\ relationsMap'[p].ref \notin Live
               /\ cursor'[p] = 0
               /\ relationMaps' = relationMaps
         /\ (pc[p] = "process" /\ pc'[p] = "idle" /\ call[p].model = g)
            => /\ ret'[p].kind = "built"
               /\ relationMaps'[g] = ret'[p].value
               /\ ret'[p].value.entries
                    = indexAll(<< >>, processOrder(records))

\* C6: queries on a model without a stored map give null in every state,
\* and every step removes, keeps, stores and rebuilds maps as stated
C6_Eviction == []C6_QueriesNull /\ [][C6_DisposalStep]_vars

\* g1 was indexed, serialized, restored under g2, disposed of and indexed
\* again: its map is the rebuilt one and the map of g2 is still stored
C6_Witness ==
  /\ g2 \in DOMAIN relationMaps
  /\ g1 \in DOMAIN relationMaps
  /\ \E p \in Procs :
       /\ ret[p].kind = "built"
       /\ call[p] = ProcessCall(g1)
       /\ ret[p].value = relationMaps[g1]
       /\ ret[p].value.entries # << >>

(* ---------------------------- serialization --------------------------- *)
RECURSIVE Ascending(_)
Ascending(keys) ==
  \/ Len(keys) <= 1
  \/ (keys[1] < keys[2] /\ Ascending(Tail(keys)))

\* getRelationsMapFromJSON(serializeRelations(m))
RoundTrip(m) == getRelationsMapFromJSON(serializeRelations(m))

(* C5, as stated: for every stored map m, the round trip                 *)
(* getRelationsMapFromJSON(serializeRelations(m)) gives m back with the  *)
(* entity ids and the role indices in the same order.                     *)
C5_RoundTripExact ==
  \A g \in DOMAIN relationMaps :
    RoundTrip(relationMaps[g].entries) = relationMaps[g].entries

(* C5, amended: the round trip gives back the same entity ids, for each  *)
(* entity the same role indices and for each slot the same list in the   *)
(* same order, every key as a number; the entity ids and the role        *)
(* indices, all of them array indices, come back in ascending numeric    *)
(* order and not in the insertion order of m.                             *)
C5_RoundTripUpToKeyOrder ==
  \A g \in DOMAIN relationMaps :
    LET m == relationMaps[g].entries
        back == RoundTrip(m)
    IN  /\ Len(back) = Len(m)
        /\ DOMAIN Unordered(back) = DOMAIN Unordered(m)
        /\ \A id \in DOMAIN Unordered(m) :
             /\ Len(Unordered(back)[id]) = Len(Unordered(m)[id])
             /\ Unordered(Unordered(back)[id]) = Unordered(Unordered(m)[id])
        /\ Ascending(MapKeys(back))
        /\ \A i \in 1..Len(back) : Ascending(MapKeys(back[i][2]))

\* the map built for g1, whose keys are not in ascending order, was
\* serialized and restored under g2 with the same content in another order
C5_Witness ==
  /\ g1 \in DOMAIN relationMaps
  /\ g2 \in DOMAIN relationMaps
  /\ \E p \in Procs : call[p] = [op |-> "setRelationMap", model |-> g2,
                                 modelID |-> -1]
  /\ ~json.isNull
  /\ json.text = serializeRelations(relationMaps[g1].entries)
  /\ relationMaps[g2].entries = getRelationsMapFromJSON(json.text)
  /\ ~Ascending(MapKeys(relationMaps[g1].entries))
  /\ relationMaps[g2].entries # relationMaps[g1].entries
  /\ DOMAIN Unordered(relationMaps[g2].entries)
       = DOMAIN Unordered(relationMaps[g1].entries)
  /\ \A id \in DOMAIN Unordered(relationMaps[g1].entries) :
       Unordered(Unordered(relationMaps[g2].entries)[id])
         = Unordered(Unordered(relationMaps[g1].entries)[id])

(* ======================= the property facet ========================== *)
(* IDSProperty of openbim/IDSSpecifications/src/facets/Property.ts.       *)
(* JavaScript values keep their kind: a number never equals a string,     *)
(* null is not undefined. Strings are sequences of characters.            *)
Num(n) == [k |-> "number", n |-> n, s |-> << >>, l |-> << >>]
Str(s) == [k |-> "string", n |-> 0, s |-> s, l |-> << >>]
Arr(l) == [k |-> "array", n |-> 0, s |-> << >>, l |-> l]
null == [k |-> "null", n |-> 0, s |-> << >>, l |-> << >>]
undefined == [k |-> "undefined", n |-> 0, s |-> << >>, l |-> << >>]

\* String(value) of a number or a string
String(value) == IF value.k = "number" THEN Str(toString(value.n)) ELSE value

\* value.trim() of a string: the characters left after dropping the blanks
\* at both ends
RECURSIVE trimStart(_)
trimStart(s) ==
  IF s = << >> THEN << >>
  ELSE IF Head(s) = " " THEN trimStart(Tail(s)) ELSE s

RECURSIVE trimEnd(_)
trimEnd(s) ==
  IF s = << >> THEN << >>
  ELSE IF s[Len(s)] = " " THEN trimEnd(SubSeq(s, 1, Len(s) - 1)) ELSE s

\* a slip in the test for an empty string: the value is not trimmed
trimNothing(s) == s

trim(s) == trimEnd(trimStart(s))

(* -------- the names, values and type tags the inputs are made of ------ *)
Pset_Demo == << "P", "s", "e", "t", "_", "D", "e", "m", "o" >>
Pset_Other == << "P", "s", "e", "t", "_", "O", "t", "h", "e", "r" >>
Width == << "W", "i", "d", "t", "h" >>
Height == << "H", "e", "i", "g", "h", "t" >>
IFCLABEL == << "I", "F", "C", "L", "A", "B", "E", "L" >>
IFCREAL == << "I", "F", "C", "R", "E", "A", "L" >>
IFCLOGICAL == << "I", "F", "C", "L", "O", "G", "I", "C", "A", "L" >>

\* the web-ifc type codes the facet tells apart, by name
IFCPROPERTYSET == "IFCPROPERTYSET"
IFCELEMENTQUANTITY == "IFCELEMENTQUANTITY"
IFCPROPERTYSINGLEVALUE == "IFCPROPERTYSINGLEVALUE"
IFCPROPERTYLISTVALUE == "IFCPROPERTYLISTVALUE"
IFCPROPERTYENUMERATEDVALUE == "IFCPROPERTYENUMERATEDVALUE"
IFCCOMPLEXPROPERTY == "IFCCOMPLEXPROPERTY"
IFCPHYSICALCOMPLEXQUANTITY == "IFCPHYSICALCOMPLEXQUANTITY"
IFCDOORLININGPROPERTIES == "IFCDOORLININGPROPERTIES"

\* this._unsupportedTypes
unsupportedTypes == {IFCCOMPLEXPROPERTY, IFCPHYSICALCOMPLEXQUANTITY}

(* ------------------------- attribute bags ----------------------------- *)
\* an attribute a bag may lack: attrs.Name, attrs.HasProperties, ...
Absent == [has |-> FALSE, value |-> undefined]
Present(v) == [has |-> TRUE, value |-> v]

\* likewise for an attribute that holds a list
NoList == [has |-> FALSE, value |-> << >>]
List(l) == [has |-> TRUE, value |-> l]

\* what model.getProperties gives for an id the model does not have
NoAttrs == [isNull |-> TRUE]

\* a wrapped scalar { type, value, name } of web-ifc
Scalar(type, value, name) == [type |-> type, value |-> value, name |-> name]

\* what a value attribute holds: one wrapped scalar, an array of them, or null
Single(v) == [shape |-> "object", obj |-> v, arr |-> << >>]
Many(vs) == [shape |-> "array", obj |-> Scalar(0, undefined, undefined), arr |-> vs]
Nothing == [shape |-> "null", obj |-> Scalar(0, undefined, undefined), arr |-> << >>]

\* the attributes of a property or quantity item: its type code, its Name and
\* its other attributes in key order, each key split before its last word
Item(type, Name, attrs) ==
  [isNull |-> FALSE, type |-> type, Name |-> Name, attrs |-> attrs]

\* the attributes of a set: its type code, its Name and its two possible
\* item lists
Set(type, Name, HasProperties, Quantities) ==
  [isNull |-> FALSE, type |-> type, Name |-> Name,
   HasProperties |-> HasProperties, Quantities |-> Quantities]

\* name.endsWith(word)
endsWith(key, word) == key[2] = word

(* ----------------------- the parameter matcher ------------------------ *)
\* an IDSFacetParameter; NoParameter stands for a facet field left undefined
NoParameter == [type |-> "none", parameter |-> undefined]
Simple(v) == [type |-> "simple", parameter |-> v]

\* an IDSCheck
Check(parameter, currentValue, requiredValue, pass) ==
  [parameter |-> parameter, currentValue |-> currentValue,
   requiredValue |-> requiredValue, pass |-> pass]

\* the checks of one entity as its evaluation goes on, and whether the
\* evaluation has thrown
Running(checks) == [checks |-> checks, threw |-> FALSE]
push(st, check) ==
  IF st.threw THEN st ELSE [st EXCEPT !.checks = Append(@, check)]
Throw(st) == [st EXCEPT !.threw = TRUE]

\* evalRequirement(value, facetParameter, parameter): does the candidate
\* match the constraint
evalRequirement(value, facetParameter) ==
  IF facetParameter.type = "simple" THEN value = facetParameter.parameter
  ELSE IF facetParameter.type = "enumeration"
    THEN \E n \in 1..Len(facetParameter.parameter.l) :
           facetParameter.parameter.l[n] = value
  ELSE FALSE

\* evalRequirement(value, facetParameter, parameter, checks): the same, and
\* the check record of the match is appended to checks
evalRequirementLogged(st, value, facetParameter, parameter) ==
  push(st, Check(parameter, value, facetParameter.parameter,
                 evalRequirement(value, facetParameter)))

(* --------------------------- the facet -------------------------------- *)
\* getItemsAttrName(type): "" stands for undefined
getItemsAttrName(type) ==
  IF type = IFCELEMENTQUANTITY THEN "Quantities"
  ELSE IF type = IFCPROPERTYSET THEN "HasProperties"
  ELSE ""

\* a slip in getValueKey: only keys that end with Values are looked for
getValueKeyValuesOnly(attrs) ==
  LET found == {n \in 1..Len(attrs.attrs) :
                  endsWith(attrs.attrs[n][1], "Values")}
  IN  IF found = {} THEN 0
      ELSE CHOOSE n \in found : \A m \in found : n <= m

\* getValueKey(attrs): the place of the first key that ends with Value or
\* Values, 0 when there is none
getValueKey(attrs) ==
  LET found == {n \in 1..Len(attrs.attrs) :
                  endsWith(attrs.attrs[n][1], "Value")
                    \/ endsWith(attrs.attrs[n][1], "Values")}
  IN  IF found = {} THEN 0
      ELSE CHOOSE n \in found : \A m \in found : n <= m

\* attrs.Name?.value ?? null
NameValue(attrs) == IF attrs.Name.has THEN attrs.Name.value ELSE null

IsListItem(attrs) ==
  attrs.type \in {IFCPROPERTYLISTVALUE, IFCPROPERTYENUMERATEDVALUE}

\* a slip in the search below: only the first element is tried
matchingValueFirstOnly(valueAttr, facetValue) ==
  valueAttr # << >> /\ evalRequirement(valueAttr[1].value, facetValue)

\* !!valueAttr.find((value) => evalRequirement(value.value, facetValue))
matchingValue(valueAttr, facetValue) ==
  \E n \in 1..Len(valueAttr) : evalRequirement(valueAttr[n].value, facetValue)

\* evalValue(attrs, checks)
evalValue(this, attrs, st) ==
  LET valueKey == getValueKey(attrs)
  IN  IF st.threw THEN st
      ELSE IF this.value.type # "none" THEN
        IF valueKey = 0
          THEN push(st, Check("Value", null, this.value.parameter, FALSE))
        ELSE
          LET valueAttr == attrs.attrs[valueKey][2]
              name == IF valueAttr.shape = "object" THEN valueAttr.obj.name
                      ELSE undefined
              facetValue ==
                IF name = Str(IFCLABEL) /\ this.value.type = "simple"
                  THEN [this.value EXCEPT !.parameter = String(@)]
                ELSE this.value
          IN  IF valueAttr.shape = "null" THEN Throw(st)
              ELSE IF IsListItem(attrs) /\ valueAttr.shape = "array" THEN
                push(st, Check("Value",
                  Arr([n \in 1..Len(valueAttr.arr) |-> valueAttr.arr[n].value]),
                  facetValue.parameter,
                  matchingValue(valueAttr.arr, facetValue)))
              ELSE
                evalRequirementLogged(st,
                  IF valueAttr.shape = "object" THEN valueAttr.obj.value
                  ELSE undefined,
                  facetValue, "Value")
      ELSE IF valueKey = 0 THEN st
      ELSE
        LET value == attrs.attrs[valueKey][2]
        IN  IF value.shape = "null" THEN Throw(st)
            ELSE IF value.shape = "array" THEN st
            ELSE IF value.obj.type = 3 /\ value.obj.value = Num(2)
              THEN push(st, Check("Value", null, null, FALSE))
            ELSE IF value.obj.type = 1 THEN
              IF value.obj.value.k # "string" THEN Throw(st)
              ELSE IF trim(value.obj.value.s) = << >>
                THEN push(st, Check("Value", Str(<< >>), null, FALSE))
              ELSE st
            ELSE st

\* evalDataType(attrs, checks)
evalDataType(this, attrs, st) ==
  LET valueKey == getValueKey(attrs)
  IN  IF st.threw \/ ~this.dataType.has THEN st
      ELSE IF valueKey = 0 THEN Throw(st)
      ELSE
        LET valueAttr == attrs.attrs[valueKey][2]
            dataType == Simple(this.dataType.value)
        IN  IF IsListItem(attrs) /\ valueAttr.shape = "array"
                /\ valueAttr.arr # << >>
              THEN evalRequirementLogged(st, valueAttr.arr[1].name, dataType,
                                         "DataType")
            ELSE IF valueAttr.shape = "null" THEN Throw(st)
            ELSE
              evalRequirementLogged(st,
                IF valueAttr.shape = "object" THEN valueAttr.obj.name
                ELSE undefined,
                dataType, "DataType")

\* a slip in the filter over items: the kind of the item is not looked at
matchingItemsOfAnyKind(this, items) ==
  SelectSeq(items,
    LAMBDA item : evalRequirement(NameValue(item), this.baseName))

\* items.filter(...) of test: the items of a supported kind whose name
\* matches baseName
matchingItemsOf(this, items) ==
  SelectSeq(items,
    LAMBDA item : item.type \notin unsupportedTypes
                    /\ evalRequirement(NameValue(item), this.baseName))

\* a slip in the filter over sets: the name is not tested
matchingSetsOfAny(this, sets) == sets

\* sets.filter(...) of test: the sets whose name matches propertySet
matchingSetsOf(this, sets) ==
  SelectSeq(sets,
    LAMBDA set : evalRequirement(NameValue(set), this.propertySet))

\* a slip in the filters: the passing check is pushed once, for the first
\* kept element, instead of once per kept element
passingChecksOnce(parameter, kept, facetParameter) ==
  IF kept = << >> THEN << >>
  ELSE << Check(parameter, kept[1].Name.value, facetParameter.parameter,
                TRUE) >>

\* the passing check each kept element pushes from inside its filter
passingChecks(parameter, kept, facetParameter) ==
  [n \in 1..Len(kept) |->
     Check(parameter, kept[n].Name.value, facetParameter.parameter, TRUE)]

\* a slip in the loop over the matching items: evalDataType is called before
\* evalValue
RECURSIVE evalItemsDataTypeFirst(_, _, _)
evalItemsDataTypeFirst(this, matchingItems, st) ==
  IF matchingItems = << >> THEN st
  ELSE evalItemsDataTypeFirst(this, Tail(matchingItems),
         evalValue(this, Head(matchingItems),
           evalDataType(this, Head(matchingItems), st)))

\* for (const item of matchingItems): evalValue, evalDataType, evalURI
RECURSIVE evalItems(_, _, _)
evalItems(this, matchingItems, st) ==
  IF matchingItems = << >> THEN st
  ELSE evalItems(this, Tail(matchingItems),
         evalDataType(this, Head(matchingItems),
           evalValue(this, Head(matchingItems), st)))

\* a slip in the loop over the matching sets: a set without a matching item
\* ends the loop (break) instead of passing to the next set (continue)
RECURSIVE evalSetsBreak(_, _, _)
evalSetsBreak(this, matchingSets, st) ==
  IF matchingSets = << >> \/ st.threw THEN st
  ELSE
    LET set == Head(matchingSets)
        itemsAttrName == getItemsAttrName(set.type)
        noBaseName == Check("BaseName", null, this.baseName.parameter, FALSE)
    IN  IF itemsAttrName = "" THEN push(st, noBaseName)
        ELSE
          LET matchingItems == matchingItemsOf(this, set[itemsAttrName].value)
              named == [st EXCEPT !.checks =
                          @ \o passingChecks("BaseName", matchingItems,
                                             this.baseName)]
          IN  IF matchingItems = << >> THEN push(st, noBaseName)
              ELSE evalSetsBreak(this, Tail(matchingSets),
                                 evalItems(this, matchingItems, named))

\* for (const set of matchingSets)
RECURSIVE evalSets(_, _, _)
evalSets(this, matchingSets, st) ==
  IF matchingSets = << >> \/ st.threw THEN st
  ELSE
    LET set == Head(matchingSets)
        itemsAttrName == getItemsAttrName(set.type)
        noBaseName == Check("BaseName", null, this.baseName.parameter, FALSE)
    IN  IF itemsAttrName = ""
          THEN evalSets(this, Tail(matchingSets), push(st, noBaseName))
        ELSE
          LET matchingItems == matchingItemsOf(this, set[itemsAttrName].value)
              named == [st EXCEPT !.checks =
                          @ \o passingChecks("BaseName", matchingItems,
                                             this.baseName)]
          IN  IF matchingItems = << >>
                THEN evalSets(this, Tail(matchingSets), push(st, noBaseName))
              ELSE evalSets(this, Tail(matchingSets),
                            evalItems(this, matchingItems, named))

\* the body of the loop of test for one entity, from the sets getPsets gave:
\* the checks pushed, whether it threw, and whether it left by "continue"
testEntity(this, sets) ==
  LET matchingSets == matchingSetsOf(this, sets)
  IN  IF matchingSets = << >> THEN
        [checks |-> << Check("PropertySet", null,
                             this.propertySet.parameter, FALSE) >>,
         threw |-> FALSE, continued |-> TRUE]
      ELSE
        LET st == evalSets(this, matchingSets,
                    Running(passingChecks("PropertySet", matchingSets,
                                          this.propertySet)))
        IN  [checks |-> st.checks, threw |-> st.threw, continued |-> FALSE]

\* checks.every(({ pass }) => pass)
every(checks) == \A n \in 1..Len(checks) : checks[n].pass

\* what test is given for an entity: entities[expressID]; entity 1 has a
\* GlobalId, the others have none
entityAttrs(expressID) ==
  [GlobalId |-> IF expressID = 1 THEN Present(Str(<< "0", "a" >>)) ELSE Absent]

\* a slip in the making of a result: it starts as passed
newResultPassed(this, expressID) ==
  [guid |-> entityAttrs(expressID).GlobalId.value, expressID |-> expressID,
   pass |-> TRUE, checks |-> << >>, cardinality |-> this.cardinality]

\* the IDSCheckResult test makes for an entity
newResult(this, expressID) ==
  [guid |-> entityAttrs(expressID).GlobalId.value, expressID |-> expressID,
   pass |-> FALSE, checks |-> << >>, cardinality |-> this.cardinality]

(* ----------------------- the steps of test ---------------------------- *)
\* model.getProperties(id) is asked when a step ends and answers when the
\* caller resumes. The model answers the same for the same id every time;
\* table[id] is what it may hold for an id not asked before.
Answers(id, table) ==
  IF id \in DOMAIN properties THEN {properties[id]} ELSE table[id]

\* the next await of getPsets: the item of the next handle, else the set of
\* the next definition, else getPsets returns and test awaits its result
Suspend(p, f, table) ==
  IF f.handles = << >> /\ f.definitions = << >> THEN
    /\ frame' = [frame EXCEPT ![p] = [f EXCEPT !.at = "getPsets"]]
    /\ UNCHANGED properties
  ELSE
    LET id == IF f.handles # << >> THEN Head(f.handles)
              ELSE Head(f.definitions)
        at == IF f.handles # << >> THEN "value" ELSE "definitionID"
    IN  \E attrs \in Answers(id, table) :
          /\ frame' = [frame EXCEPT ![p] =
                         [f EXCEPT !.at = at, !.awaited = attrs]]
          /\ properties' = [n \in (DOMAIN properties) \cup {id} |->
                              IF n = id THEN attrs ELSE properties[n]]

\* a slip at the end of test: the buffer itself is returned and then emptied
returnBuffer(p, f, arrs, tr) ==
  /\ arrays' = [arrs EXCEPT ![tr] = << >>]
  /\ testResult' = tr
  /\ frame' = [frame EXCEPT ![p] = [f EXCEPT !.at = "returned", !.ret = tr]]

\* const result = [...this.testResult]; this.testResult = []; return result
returnResult(p, f, arrs, tr) ==
  /\ arrays' = Append(Append(arrs, arrs[tr]), << >>)
  /\ testResult' = Len(arrs) + 2
  /\ frame' = [frame EXCEPT ![p] =
                 [f EXCEPT !.at = "returned", !.ret = Len(arrs) + 1]]

\* the loop of test goes on after entity f.i: the result of the next entity
\* is made and pushed on the array this.testResult refers to and getPsets
\* starts on it, or the loop is over and the results are returned
nextEntity(p, f, res, arrs, tr, table) ==
  IF f.i < Len(f.entities) THEN
    LET expressID == f.entities[f.i + 1]
        definitions == getEntityRelations(f.model, expressID, "IsDefinedBy")
    IN  /\ results' = Append(res, newResult(facet, expressID))
        /\ arrays' = [arrs EXCEPT ![tr] = Append(@, Len(res) + 1)]
        /\ testResult' = tr
        /\ Suspend(p,
             [f EXCEPT !.i = @ + 1, !.result = Len(res) + 1,
                       !.definitions = IF definitions.isNull THEN << >>
                                       ELSE definitions.value,
                       !.sets = << >>, !.handles = << >>, !.props = << >>],
             table)
  ELSE
    /\ results' = res
    /\ returnResult(p, f, arrs, tr)
    /\ UNCHANGED properties

\* test(entities, model) called by p: the buffer is replaced by a new array
\* and the loop starts
testStart(p, entities, model, table) ==
  /\ frame[p].at = "idle"
  /\ nextEntity(p, [frame[p] EXCEPT !.entities = entities, !.model = model,
                                    !.buffer = Len(arrays) + 1],
                results, Append(arrays, << >>), Len(arrays) + 1, table)
  /\ UNCHANGED << facet, indexerVars >>

\* attrsClone[propsListName] = props; sets.push(attrsClone)
pushSet(f, props) ==
  [f EXCEPT !.sets = Append(@, [f.attrsClone EXCEPT
                                  ![getItemsAttrName(f.attrsClone.type)] =
                                    List(props)]),
            !.props = << >>]

\* getPsets resumed with the attributes of a definition
getPsetsDefinition(p, table) ==
  LET f == [frame[p] EXCEPT !.definitions = Tail(@)]
      attrs == frame[p].awaited
      propsListName == getItemsAttrName(attrs.type)
  IN  /\ frame[p].at = "definitionID"
      /\ IF attrs.isNull THEN Suspend(p, f, table)
         ELSE IF propsListName = "" THEN Suspend(p, f, table)
         ELSE IF ~attrs[propsListName].has THEN
           \* for (... of undefined): TypeError
           /\ frame' = [frame EXCEPT ![p] = [f EXCEPT !.at = "thrown"]]
           /\ UNCHANGED properties
         ELSE IF attrs[propsListName].value = << >>
           THEN Suspend(p, pushSet([f EXCEPT !.attrsClone = attrs], << >>),
                        table)
         ELSE Suspend(p, [f EXCEPT !.attrsClone = attrs,
                                   !.handles = attrs[propsListName].value,
                                   !.props = << >>], table)
      /\ UNCHANGED << facet, testResult, arrays, results, indexerVars >>

\* getPsets resumed with the attributes of an item of the set at hand
getPsetsValue(p, table) ==
  LET propAttrs == frame[p].awaited
      props == IF propAttrs.isNull THEN frame[p].props
               ELSE Append(frame[p].props, propAttrs)
      f == [frame[p] EXCEPT !.handles = Tail(@), !.props = props]
  IN  /\ frame[p].at = "value"
      /\ IF f.handles = << >> THEN Suspend(p, pushSet(f, props), table)
         ELSE Suspend(p, f, table)
      /\ UNCHANGED << facet, testResult, arrays, results, indexerVars >>

\* test resumed with the sets of its entity: the checks are made, pass is
\* set unless the entity was left by "continue", and the loop goes on
testResume(p, table) ==
  LET f == frame[p]
      done == testEntity(facet, f.sets)
      res == [results EXCEPT ![f.result] =
                [@ EXCEPT !.checks = done.checks,
                          !.pass = IF done.threw \/ done.continued THEN @
                                   ELSE every(done.checks)]]
  IN  /\ f.at = "getPsets"
      /\ IF done.threw THEN
           /\ results' = res
           /\ frame' = [frame EXCEPT ![p] = [f EXCEPT !.at = "thrown"]]
           /\ UNCHANGED << properties, testResult, arrays >>
         ELSE nextEntity(p, f, res, arrays, testResult, table)
      /\ UNCHANGED << facet, indexerVars >>

(* ----------------------- inputs of the facet -------------------------- *)
\* expressIDs: the entities are Ids, then come the sets, then the items
SetIds == (MaxId + 1)..(MaxId + MaxSets)
ItemIds == (MaxId + MaxSets + 1)..(MaxId + MaxSets + MaxItems)

\* the entities objects test is called with, as their keys in for-in order
RECURSIVE ascending(_)
ascending(ids) ==
  IF ids = {} THEN << >>
  ELSE LET least == CHOOSE n \in ids : \A m \in ids : n <= m
       IN  << least >> \o ascending(ids \ {least})

EntityLists == {ascending(ids) : ids \in SUBSET Ids}

\* relation files in which line n attaches set n to the entities of a list
DefinitionFiles(relatedLists) ==
  UNION {{file \in [1..n -> [type : {"IFCRELDEFINESBYPROPERTIES"},
                             relating : SetIds, related : relatedLists,
                             lacks : {{}}]] :
            \A k \in 1..n : file[k].relating = MaxId + k} : n \in 0..MaxSets}

\* the keys of the items, each split before its last word
Description == << "", "Description" >>
NominalValue == << "Nominal", "Value" >>
ListValues == << "List", "Values" >>
EnumerationValues == << "Enumeration", "Values" >>
UsageName == << "Usage", "Name" >>

Real(n) == Scalar(4, Num(n), Str(IFCREAL))
Label(s) == Scalar(1, Str(s), Str(IFCLABEL))
Logical(n) == Scalar(3, Num(n), Str(IFCLOGICAL))

Named(name) == Present(Str(name))

SingleValue(Name, value) ==
  Item(IFCPROPERTYSINGLEVALUE, Name,
       << << Description, Nothing >>, << NominalValue, value >> >>)

ListValue(Name, values) ==
  Item(IFCPROPERTYLISTVALUE, Name,
       << << Description, Nothing >>, << ListValues, Many(values) >> >>)

EnumeratedValue(Name, values) ==
  Item(IFCPROPERTYENUMERATEDVALUE, Name,
       << << Description, Nothing >>, << EnumerationValues, Many(values) >> >>)

\* what the model may hold for an item id
RichItems ==
  { NoAttrs,
    SingleValue(Named(Width), Single(Real(5))),
    SingleValue(Named(Width), Single(Real(6))),
    SingleValue(Named(Width), Single(Label(<< >>))),
    SingleValue(Named(Width), Single(Label(<< " ", " " >>))),
    SingleValue(Named(Width), Single(Label(<< "5" >>))),
    SingleValue(Named(Width), Single(Logical(2))),
    SingleValue(Named(Width), Nothing),
    Item(IFCPROPERTYSINGLEVALUE, Named(Width), << << Description, Nothing >> >>),
    ListValue(Named(Width), << Label(<< "A" >>), Label(<< "B" >>) >>),
    ListValue(Named(Width), << >>),
    EnumeratedValue(Named(Width), << Label(<< "A" >>) >>),
    SingleValue(Named(Height), Single(Real(5))),
    SingleValue(Absent, Single(Real(5))),
    Item(IFCCOMPLEXPROPERTY, Named(Width), << << UsageName, Nothing >> >>) }

FewItems ==
  { SingleValue(Named(Width), Single(Real(5))),
    SingleValue(Named(Height), Single(Real(5))) }

\* the handle lists of the sets: the first items, in order
HandleLists ==
  {[n \in 1..len |-> MaxId + MaxSets + n] : len \in 0..MaxItems}

PropertySet(Name, handles) == Set(IFCPROPERTYSET, Name, handles, NoList)
ElementQuantity(Name, handles) == Set(IFCELEMENTQUANTITY, Name, NoList, handles)

\* what the model may hold for a set id
RichSets ==
  { NoAttrs,
    Set(IFCDOORLININGPROPERTIES, Named(Pset_Demo), NoList, NoList),
    PropertySet(Named(Pset_Demo), NoList),
    PropertySet(Named(Pset_Other), List(<< MaxId + MaxSets + 1 >>)),
    PropertySet(Absent, List(<< MaxId + MaxSets + 1 >>)),
    ElementQuantity(Named(Pset_Demo), List(<< MaxId + MaxSets + 1 >>)) }
    \cup {PropertySet(Named(Pset_Demo), List(handles)) :
            handles \in HandleLists}

FewSets ==
  { NoAttrs,
    PropertySet(Named(Pset_Other), List(<< >>)),
    PropertySet(Named(Pset_Demo), List(<< MaxId + MaxSets + 1 >>)) }

RichTable == [id \in SetIds \cup ItemIds |->
                IF id \in SetIds THEN RichSets ELSE RichItems]

FewTable == [id \in SetIds \cup ItemIds |->
               IF id \in SetIds THEN FewSets ELSE FewItems]

\* the facets under test: Pset_Demo.Width, with or without a value and a
\* dataType, under each cardinality
Facets ==
  [propertySet : {Simple(Str(Pset_Demo))}, baseName : {Simple(Str(Width))},
   value : {NoParameter, Simple(Num(5)), Simple(Str(<< "B" >>))},
   dataType : {Absent, Present(Str(IFCREAL))},
   cardinality : {"required", "optional", "prohibited"}]

PlainFacets == {this \in Facets : this.value.type = "none" /\ ~this.dataType.has}

(* --------------------- specifications of the facet -------------------- *)
\* caller 1 has indexed model g1, whose file attaches the sets; no test call
\* has been made on the facet
InitFacetOf(files, facets) ==
  LET built == [ref |-> 1,
                entries |-> indexAll(<< >>, processOrder(records))]
  IN  /\ records \in files
      /\ relationMaps = Store(<< >>, g1, built)
      /\ json = JsonNull
      /\ pc = [p \in Procs |-> "idle"]
      /\ call = [p \in Procs |-> IF p = 1 THEN ProcessCall(g1) ELSE NoCall]
      /\ cursor = [p \in Procs |-> 0]
      /\ relationsMap = [p \in Procs |-> NoMap]
      /\ ret = [p \in Procs |->
                  IF p = 1 THEN [kind |-> "built", value |-> built] ELSE NoRet]
      /\ fired = [p \in Procs |->
                    IF p = 1 THEN << [modelID |-> g1, relationsMap |-> built] >>
                    ELSE << >>]
      /\ stale = {}
      /\ facet \in facets
      /\ FacetQuiet

InitFacet == InitFacetOf(DefinitionFiles({<< 1 >>}), Facets)

(* one test call on entity 1, over all that the model may hold *)
NextFacet ==
  \/ \E model \in Models : testStart(1, << 1 >>, model, RichTable)
  \/ getPsetsDefinition(1, RichTable)
  \/ getPsetsValue(1, RichTable)
  \/ testResume(1, RichTable)

SpecFacet == InitFacet /\ [][NextFacet]_vars

InitFacetCalls == InitFacetOf(DefinitionFiles({<< 1 >>, << 1, 2 >>}), PlainFacets)

(* one test call by each caller on the same facet, overlapping or not *)
NextFacetCalls ==
  \/ \E p \in Procs, entities \in EntityLists :
       testStart(p, entities, g1, FewTable)
  \/ \E p \in Procs : getPsetsDefinition(p, FewTable)
  \/ \E p \in Procs : getPsetsValue(p, FewTable)
  \/ \E p \in Procs : testResume(p, FewTable)

SpecFacetCalls == InitFacetCalls /\ [][NextFacetCalls]_vars

(* ======================= properties of the facet ====================== *)
Began(p) == frame[p].at # "idle"
Returned(p) == frame[p].at = "returned"

\* the results the call of p returned, in the order of the returned list
Returns(p) ==
  [n \in 1..Len(arrays[frame[p].ret]) |-> results[arrays[frame[p].ret][n]]]

\* the calls of p and q did not overlap: q has not called, or one of them had
\* made its last array, the empty buffer it leaves, before the other made
\* its first
Apart(p, q) ==
  \/ ~Began(q)
  \/ Returned(p) /\ frame[p].ret + 1 < frame[q].buffer
  \/ Returned(q) /\ frame[q].ret + 1 < frame[p].buffer

RanAlone(p) == Returned(p) /\ \A q \in Procs \ {p} : Apart(p, q)

\* the returned list has one result per entity of the input of p, in input
\* order, with the entity's id and the cardinality of the facet
OnePerEntity(p) ==
  /\ Len(Returns(p)) = Len(frame[p].entities)
  /\ \A n \in 1..Len(Returns(p)) :
       /\ Returns(p)[n].expressID = frame[p].entities[n]
       /\ Returns(p)[n].cardinality = facet.cardinality

C11_AloneReturnsAll == \A p \in Procs : RanAlone(p) => OnePerEntity(p)

C11_ReturnStep ==
  \A p \in Procs :
    /\ (~Returned(p) /\ frame'[p].at = "returned")
         => arrays'[testResult'] = << >>
    /\ Returned(p)
         => /\ frame'[p].ret = frame[p].ret
            /\ arrays'[frame[p].ret] = arrays[frame[p].ret]

(* C11: a test call that ran alone has returned one result per input      *)
(* entity, in input order, each with the entity's id and the facet's       *)
(* cardinality; the buffer this.testResult is empty at the step at which   *)
(* a call returns; and a returned list keeps its elements at every later   *)
(* step, those of a later test call included.                              *)
C11_OneResultPerEntity == []C11_AloneReturnsAll /\ [][C11_ReturnStep]_vars

\* both callers have called, one after the other; the first passed two
\* entities and its list still holds their two results
C11_Witness ==
  \E p \in Procs, q \in Procs :
    /\ p # q /\ RanAlone(p) /\ Returned(q)
    /\ frame[p].ret < frame[q].buffer
    /\ Len(frame[p].entities) = 2 /\ Len(frame[q].entities) > 0
    /\ Len(Returns(p)) = 2
    /\ arrays[testResult] = << >>

(* C12: in every result a test call has returned, pass is true exactly    *)
(* when every check of its checks list has passed, on the path that left   *)
(* the entity early for want of a matching set as on the others.           *)
C12_PassIsEveryCheck ==
  \A p \in Procs :
    Returned(p) =>
      \A n \in 1..Len(Returns(p)) :
        Returns(p)[n].pass
          <=> (\A k \in 1..Len(Returns(p)[n].checks) :
                 Returns(p)[n].checks[k].pass)

\* a returned result of the early exit: one failing check, not passed; the
\* entity has a set, of another name
C12_Witness ==
  /\ Returned(1) /\ Len(Returns(1)) = 1
  /\ ~Returns(1)[1].pass
  /\ Len(Returns(1)[1].checks) = 1
  /\ ~Returns(1)[1].checks[1].pass
  /\ Returns(1)[1].checks[1].parameter = "PropertySet"
  /\ records # << >>

(* ------------- what the model holds, as far as it was asked ----------- *)
\* the ids the file of g1 attaches to an entity through IsDefinedBy, in file
\* order; g2 has no relation map
Attached(model, expressID) ==
  IF model # g1 THEN << >>
  ELSE LET lines == SelectSeq(records,
                      LAMBDA line : InSeq(expressID, line.related))
       IN  [n \in 1..Len(lines) |-> lines[n].relating]

Known(id) == id \in DOMAIN properties /\ ~properties[id].isNull

\* the id is a property set or a quantity set
IsSet(id) ==
  Known(id) /\ properties[id].type \in {IFCPROPERTYSET, IFCELEMENTQUANTITY}

\* the id has a Name and the parameter, a simple one, is that name
IsNamed(id, facetParameter) ==
  /\ Known(id) /\ properties[id].Name.has
  /\ properties[id].Name.value = facetParameter.parameter

\* the attached sets of an entity whose name is the facet's propertySet
NamedSets(model, expressID) ==
  SelectSeq(Attached(model, expressID),
    LAMBDA id : IsSet(id) /\ IsNamed(id, facet.propertySet))

(* C13: an entity none of whose attached sets is named as propertySet     *)
(* asks, be it that it has no set, no entry in the index, or sets of       *)
(* other names, gets a result that has not passed and holds one check:     *)
(* PropertySet, currentValue null, failed; no BaseName, Value or DataType  *)
(* check is made; and so under each cardinality.                           *)
C13_MissingSet ==
  \A p \in Procs :
    Returned(p) =>
      \A n \in 1..Len(Returns(p)) :
        NamedSets(frame[p].model, Returns(p)[n].expressID) = << >>
          => /\ ~Returns(p)[n].pass
             /\ Returns(p)[n].checks =
                  << Check("PropertySet", null, facet.propertySet.parameter,
                           FALSE) >>

\* a prohibited facet, an entity whose only set has another name
C13_Witness ==
  /\ Returned(1) /\ frame[1].model = g1 /\ Len(Returns(1)) = 1
  /\ facet.cardinality = "prohibited"
  /\ Len(Attached(g1, 1)) = 1 /\ IsSet(Attached(g1, 1)[1])
  /\ NamedSets(g1, 1) = << >>
  /\ ~Returns(1)[1].pass /\ Len(Returns(1)[1].checks) = 1

\* the items of a set that the model holds, in the order of its handles
ItemsOf(id) ==
  LET handles == IF properties[id].type = IFCPROPERTYSET
                   THEN properties[id].HasProperties.value
                 ELSE properties[id].Quantities.value
      known == SelectSeq(handles, Known)
  IN  [n \in 1..Len(known) |-> properties[known[n]]]

\* the items of a set that bear the name the facet's baseName asks
NamedItems(id) ==
  SelectSeq(ItemsOf(id),
    LAMBDA item : item.Name.has
                    /\ item.Name.value = facet.baseName.parameter)

\* the item has an attribute that holds the wrapped scalar v
HasScalar(item, v) ==
  \E n \in 1..Len(item.attrs) :
    item.attrs[n][2].shape = "object" /\ item.attrs[n][2].obj.value = v

\* the parameters of the checks of a result, in order
Parameters(result) ==
  [k \in 1..Len(result.checks) |-> result.checks[k].parameter]

\* the entity has one set of the asked name, with one item of the asked
\* name, whose scalar is the simple value the facet asks; no dataType
ExactMatch(model, expressID) ==
  /\ facet.value.type = "simple" /\ ~facet.dataType.has
  /\ Len(NamedSets(model, expressID)) = 1
  /\ Len(NamedItems(NamedSets(model, expressID)[1])) = 1
  /\ HasScalar(NamedItems(NamedSets(model, expressID)[1])[1],
               facet.value.parameter)

(* C14: an entity with exactly one attached set named as propertySet      *)
(* asks, in which exactly one item is named as baseName asks and holds     *)
(* the scalar the facet's simple value asks, under a facet without         *)
(* dataType, gets a result that has passed with three checks, all passed:  *)
(* PropertySet, BaseName, Value.                                           *)
C14_ExactMatch ==
  \A p \in Procs :
    Returned(p) =>
      \A n \in 1..Len(Returns(p)) :
        ExactMatch(frame[p].model, Returns(p)[n].expressID)
          => /\ Returns(p)[n].pass
             /\ Parameters(Returns(p)[n]) = << "PropertySet", "BaseName", "Value" >>
             /\ \A k \in 1..3 : Returns(p)[n].checks[k].pass

\* Pset_Demo.Width = 5 under a facet that asks 5, beside a second set
C14_Witness ==
  /\ Returned(1) /\ Len(Returns(1)) = 1
  /\ ExactMatch(g1, 1)
  /\ Len(Attached(g1, 1)) = 2
  /\ facet.value.parameter = Num(5)
  /\ Returns(1)[1].pass
  /\ Returns(1)[1].checks[3].currentValue = Num(5)

RECURSIVE Concat(_)
Concat(lists) ==
  IF lists = << >> THEN << >> ELSE Head(lists) \o Concat(Tail(lists))

\* the items the facet matches for an entity: those of a supported kind and
\* of the asked name in the sets of the asked name, set by set
MatchedItems(model, expressID) ==
  Concat([n \in 1..Len(NamedSets(model, expressID)) |->
            SelectSeq(NamedItems(NamedSets(model, expressID)[n]),
              LAMBDA item : item.type \notin
                              {IFCCOMPLEXPROPERTY, IFCPHYSICALCOMPLEXQUANTITY})])

\* the Value checks of a result, in order
ValueChecks(result) ==
  SelectSeq(result.checks, LAMBDA check : check.parameter = "Value")

\* the item holds a text that is empty or all blanks
IsBlankText(item) ==
  \E n \in 1..Len(item.attrs) :
    /\ item.attrs[n][2].shape = "object"
    /\ item.attrs[n][2].obj.type = 1
    /\ \A c \in 1..Len(item.attrs[n][2].obj.value.s) :
         item.attrs[n][2].obj.value.s[c] = " "

\* the item holds the logical unknown
IsLogicalUnknown(item) ==
  \E n \in 1..Len(item.attrs) :
    /\ item.attrs[n][2].shape = "object"
    /\ item.attrs[n][2].obj.type = 3
    /\ item.attrs[n][2].obj.value = Num(2)

\* the Value check a matched item owes when the facet asks no value
ValueFault(item) ==
  IF IsLogicalUnknown(item) THEN << Check("Value", null, null, FALSE) >>
  ELSE IF IsBlankText(item) THEN << Check("Value", Str(<< >>), null, FALSE) >>
  ELSE << >>

ValueFaults(model, expressID) ==
  Concat([n \in 1..Len(MatchedItems(model, expressID)) |->
            ValueFault(MatchedItems(model, expressID)[n])])

(* C15: under a facet that asks no value, the Value checks of a returned  *)
(* result are, in the order of the matched items, one failed check with    *)
(* currentValue "" for each matched item whose text is empty or all        *)
(* blanks and one failed check for each whose value is the logical         *)
(* unknown, and none for any other matched item; with one such check the   *)
(* result has not passed.                                                  *)
C15_ValueRules ==
  \A p \in Procs :
    (Returned(p) /\ facet.value.type = "none") =>
      \A n \in 1..Len(Returns(p)) :
        /\ ValueChecks(Returns(p)[n])
             = ValueFaults(frame[p].model, Returns(p)[n].expressID)
        /\ ValueFaults(frame[p].model, Returns(p)[n].expressID) # << >>
             => ~Returns(p)[n].pass

\* a matched item of two blanks beside a matched item with the value 5: one
\* Value check, with currentValue ""
C15_Witness ==
  /\ Returned(1) /\ Len(Returns(1)) = 1 /\ facet.value.type = "none"
  /\ Len(MatchedItems(g1, 1)) = 2
  /\ \E n \in 1..2 :
       /\ IsBlankText(MatchedItems(g1, 1)[n])
       /\ HasScalar(MatchedItems(g1, 1)[n], Str(<< " ", " " >>))
       /\ HasScalar(MatchedItems(g1, 1)[3 - n], Num(5))
  /\ ValueChecks(Returns(1)[1]) = << Check("Value", Str(<< >>), null, FALSE) >>
  /\ ~Returns(1)[1].pass

\* the item is a list or enumerated property that holds an array
IsListValued(item) ==
  /\ item.type \in {IFCPROPERTYLISTVALUE, IFCPROPERTYENUMERATEDVALUE}
  /\ \E n \in 1..Len(item.attrs) : item.attrs[n][2].shape = "array"

\* the values of the elements of its array, in order
Elements(item) ==
  LET n == CHOOSE n \in 1..Len(item.attrs) : item.attrs[n][2].shape = "array"
  IN  [k \in 1..Len(item.attrs[n][2].arr) |-> item.attrs[n][2].arr[k].value]

(* C16: under a facet that asks a value, a returned result has one Value  *)
(* check for each matched item, in their order, and the check of a         *)
(* matched item that is a list or enumerated property has the full list    *)
(* of element values, in order, as currentValue and has passed exactly     *)
(* when at least one element is the asked value.                           *)
C16_ListValues ==
  \A p \in Procs :
    (Returned(p) /\ facet.value.type = "simple") =>
      \A n \in 1..Len(Returns(p)) :
        LET items == MatchedItems(frame[p].model, Returns(p)[n].expressID)
            checks == ValueChecks(Returns(p)[n])
        IN  /\ Len(checks) = Len(items)
            /\ \A k \in 1..Len(items) :
                 IsListValued(items[k]) =>
                   checks[k] =
                     Check("Value", Arr(Elements(items[k])),
                           facet.value.parameter,
                           \E e \in 1..Len(Elements(items[k])) :
                             Elements(items[k])[e] = facet.value.parameter)

\* the list ["A", "B"] under a facet that asks "B": passed, with the full list
C16_Witness ==
  /\ Returned(1) /\ Len(Returns(1)) = 1
  /\ facet.value = Simple(Str(<< "B" >>))
  /\ Len(MatchedItems(g1, 1)) = 1
  /\ IsListValued(MatchedItems(g1, 1)[1])
  /\ ValueChecks(Returns(1)[1]) =
       << Check("Value", Arr(<< Str(<< "A" >>), Str(<< "B" >>) >>),
                Str(<< "B" >>), TRUE) >>
  /\ Returns(1)[1].pass

(* C17: no test call ends by throwing, whatever sets and items the model  *)
(* holds for the entities: no set, a set without item list, items          *)
(* without name, items without value attribute under a facet that asks a   *)
(* value or a dataType.                                                    *)
C17_NeverThrows == \A p \in Procs : frame[p].at # "thrown"

(* C18: every test call that has returned, alone or overlapping another   *)
(* call on the same facet, has returned one result per entity of its own   *)
(* input, in input order, and none of an entity of the other's input.      *)
C18_NoLeak == \A p \in Procs : Returned(p) => OnePerEntity(p)

(* ================== more properties of the indexer =================== *)
\* how many times x occurs in a list
Count(x, list) == Cardinality({n \in 1..Len(list) : list[n] = x})

\* the last line of the file of the kind and relating entity of line i
LastLike(i) ==
  CHOOSE j \in IndexedLines :
    /\ records[j].type = records[i].type
    /\ records[j].relating = records[i].relating
    /\ \A k \in IndexedLines :
         (records[k].type = records[i].type
            /\ records[k].relating = records[i].relating) => k <= j

\* the inverse attributes that some kind gives its related entities
InverseRoles ==
  {relToAttributesMap[ifcRels[k]].forRelated : k \in 1..Len(ifcRels)}

\* the list of a slot, empty when the query gives null
Slot(g, expressID, relationName) ==
  IF getEntityRelations(g, expressID, relationName).isNull THEN << >>
  ELSE getEntityRelations(g, expressID, relationName).value

\* the lines that give their related entities the role and have r as
\* relating entity
LinesOf(role, r) ==
  {i \in IndexedLines :
     relToAttributesMap[records[i].type].forRelated = role
       /\ records[i].relating = r}

RECURSIVE Occurrences(_, _)
Occurrences(e, lines) ==
  IF lines = {} THEN 0
  ELSE LET i == CHOOSE i \in lines : TRUE
       IN  Count(e, records[i].related) + Occurrences(e, lines \ {i})

\* the forward slot of the relating entity of a line is the related list of
\* the last line of its kind with that relating entity
C19_ForwardIsLast ==
  \A g \in DOMAIN relationMaps : \A i \in IndexedLines :
    getEntityRelations(g, records[i].relating,
                       relToAttributesMap[records[i].type].forRelating)
      = Value(records[LastLike(i)].related)

KindOrders ==
  {kinds \in [1..NumKinds -> InputKinds] :
     \A i, j \in 1..NumKinds : kinds[i] = kinds[j] => i = j}

\* the inverse roles that two relation kinds give their related entities
SharedRoles ==
  {role \in InverseRoles :
     \E i, j \in 1..Len(ifcRels) :
       /\ i # j
       /\ relToAttributesMap[ifcRels[i]].forRelated = role
       /\ relToAttributesMap[ifcRels[j]].forRelated = role}

\* the two maps have the same entities and every entity the same roles
SameKeys(m, n) ==
  /\ DOMAIN Unordered(m) = DOMAIN Unordered(n)
  /\ \A id \in DOMAIN Unordered(m) :
       DOMAIN Unordered(MapGet(m, id)) = DOMAIN Unordered(MapGet(n, id))

\* the two lists hold the same ids, each as many times
SameBag(l, r) ==
  /\ Len(l) = Len(r)
  /\ \A n \in 1..Len(l) : Count(l[n], l) = Count(l[n], r)

(* C20, as stated: the map process has stored for a file is the map the  *)
(* loop builds with the relation kinds in any other order: the same       *)
(* entities and roles, and every forward and every inverse slot, those of *)
(* a role shared by two kinds included, the same list in the same order.  *)
C20_SameLists ==
  \A g \in DOMAIN relationMaps : \A kinds \in KindOrders :
    LET m == relationMaps[g].entries
        n == indexAll(<< >>, linesInOrder(records, kinds))
    IN  /\ SameKeys(m, n)
        /\ \A id \in DOMAIN Unordered(m) :
             Unordered(MapGet(m, id)) = Unordered(MapGet(n, id))

(* C20, amended: with the relation kinds in any other order the map has   *)
(* the same entities and roles; every forward slot and every inverse slot *)
(* of a role of one kind only holds the same list in the same order; an   *)
(* inverse slot of a role shared by two kinds holds the same ids, each as  *)
(* many times, in an order that follows the order of the kinds.           *)
C20_SameUpToSharedOrder ==
  \A g \in DOMAIN relationMaps : \A kinds \in KindOrders :
    LET m == relationMaps[g].entries
        n == indexAll(<< >>, linesInOrder(records, kinds))
    IN  /\ SameKeys(m, n)
        /\ \A id \in DOMAIN Unordered(m) :
             \A index \in DOMAIN Unordered(MapGet(m, id)) :
               LET l == MapGet(MapGet(m, id), index)
                   r == MapGet(MapGet(n, id), index)
               IN  IF inverseAttributes[index + 1] \in SharedRoles
                     THEN SameBag(l, r) ELSE l = r

\* a material and a classification association with different relating
\* entities list the same entity, whose shared inverse slot holds both
C20_Witness ==
  /\ g1 \in DOMAIN relationMaps /\ ret[1].kind = "built"
  /\ Len(records) = 2
  /\ records[1].type = "IFCRELASSOCIATESCLASSIFICATION"
  /\ records[2].type = "IFCRELASSOCIATESMATERIAL"
  /\ records[1].relating # records[2].relating
  /\ \E e \in Ids :
       /\ InSeq(e, records[1].related) /\ InSeq(e, records[2].related)
       /\ Len(Slot(g1, e, "HasAssociations")) >= 2
       /\ "HasAssociations" \in SharedRoles

(* ============== disposal, raw records, the web-ifc path ============== *)
(* C21: once the disposal of a model has been handled, a process call on *)
(* that model that was suspended in its build at that moment stores no    *)
(* map when it resumes and ends: the stored maps stay as they are, so the *)
(* model has no stored map until a call that started after the disposal   *)
(* completes.                                                             *)
C21_DisposalWins ==
  [][\A p \in Procs :
       (p \in stale /\ pc[p] = "process" /\ pc'[p] = "idle")
         => relationMaps' = relationMaps]_vars

\* the map the loop of processFromWebIfc builds from the raw records of lines
RECURSIVE webIfcAll(_, _)
webIfcAll(map, lines) ==
  IF lines = << >> THEN map
  ELSE webIfcAll(webIfcLine(map, Head(lines).type,
                            getItemProperties(Head(lines))),
                 Tail(lines))

\* the file without the lines whose raw record lacks an attribute
WithoutMalformed(file) == SelectSeq(file, LAMBDA line : line.lacks = {})

\* the line the suspended call of caller p is about to take
NextLine(p) == processOrder(records)[cursor[p] + 1]

C22_Returned ==
  ret[1].kind = "webifc"
    => ret[1].value.entries
         = webIfcAll(<< >>, processOrder(WithoutMalformed(records)))

C22_SkipStep ==
  (pc[1] = "webifc" /\ NextLine(1).lacks # {})
    => /\ relationsMap'[1].entries = relationsMap[1].entries
          \/ (pc'[1] = "idle"
                /\ ret'[1].value.entries = relationsMap[1].entries)
       /\ ret'[1].kind # "thrown"
       /\ \/ (pc'[1] = "webifc" /\ cursor'[1] = cursor[1] + 1)
          \/ (pc'[1] = "idle" /\ ret'[1].kind = "webifc"
                /\ cursor[1] + 1 = Len(processOrder(records)))

(* C22: in processFromWebIfc a raw record that lacks its relating or its  *)
(* related attribute adds nothing to the map, raises no error and does    *)
(* not stop the loop: the call goes on to the next line or to its end,    *)
(* and the map it returns is the map of the file without these records.   *)
C22_MalformedSkipped == []C22_Returned /\ [][C22_SkipStep]_vars

\* a call has returned for a file of a malformed line followed, in
\* processing order, by a well-formed one that filled the map
C22_Witness ==
  /\ ret[1].kind = "webifc"
  /\ Len(records) = 2
  /\ processOrder(records)[1].lacks # {}
  /\ processOrder(records)[2].lacks = {}
  /\ processOrder(records)[2].related # << >>
  /\ ret[1].value.entries # << >>

\* this step is a step of a processFromWebIfc call of caller p
WebIfcStep(p) ==
  /\ call'[p].op = "processFromWebIfc"
  /\ << pc[p], call[p], ret[p], fired[p], relationsMap[p], cursor[p] >>'
       # << pc[p], call[p], ret[p], fired[p], relationsMap[p], cursor[p] >>

\* no step of a processFromWebIfc call changes the stored maps or an answer
\* of getEntityRelations, and the call begins with a new, empty map
C27_FrameStep ==
  \A p \in Procs :
    WebIfcStep(p) =>
      /\ relationMaps' = relationMaps
      /\ \A g \in Models, id \in Ids, name \in KnownRelationNames :
           getEntityRelations(g, id, name)' = getEntityRelations(g, id, name)
      /\ (pc[p] = "idle" /\ pc'[p] = "webifc") =>
           /\ relationsMap'[p].entries = << >>
           /\ relationsMap'[p].ref \notin Live

\* a returned map is no stored map; two callers whose calls have returned
\* hold two map objects with the same entries, and each has fired once,
\* with its own map
C27_FreshInv ==
  \A p \in Procs :
    ret[p].kind = "webifc" =>
      /\ \A g \in DOMAIN relationMaps :
           relationMaps[g].ref # ret[p].value.ref
      /\ ret[p].value.entries = webIfcAll(<< >>, processOrder(records))
      /\ fired[p] = << [modelID |-> toString(call[p].modelID),
                        relationsMap |-> ret[p].value] >>
      /\ \A q \in Procs \ {p} :
           ret[q].kind = "webifc" =>
             /\ ret[q].value.ref # ret[p].value.ref
             /\ ret[q].value.entries = ret[p].value.entries

(* C27: processFromWebIfc never changes the stored maps, so that          *)
(* getEntityRelations answers after it as before; every call builds a new *)
(* map, never a stored one: two calls on the same model return two        *)
(* distinct maps with equal entries and fire one notification each.       *)
C27_WebIfcFrame == []C27_FreshInv /\ [][C27_FrameStep]_vars

\* a map is stored for the model and two callers have each got a non-empty
\* map from processFromWebIfc
C27_Witness ==
  /\ g1 \in DOMAIN relationMaps
  /\ relationMaps[g1].entries # << >>
  /\ \A p \in Procs : ret[p].kind = "webifc" /\ ret[p].value.entries # << >>

(* ================ more properties of the facet's checks =============== *)
\* the attached sets of an entity that getPsets hands to test: the property
\* sets and quantity sets the model holds
DiscoveredSets(model, expressID) == SelectSeq(Attached(model, expressID), IsSet)

\* the checks of a result that bear the parameter, in order
ChecksOf(result, parameter) ==
  SelectSeq(result.checks, LAMBDA check : check.parameter = parameter)

(* C23, as stated: in every returned result of an entity with at least    *)
(* one set named as propertySet asks, there are as many PropertySet       *)
(* checks as sets were discovered for the entity, matching or not.        *)
C23_OnePerTestedSet ==
  \A p \in Procs :
    Returned(p) =>
      \A n \in 1..Len(Returns(p)) :
        NamedSets(frame[p].model, Returns(p)[n].expressID) # << >>
          => Len(ChecksOf(Returns(p)[n], "PropertySet"))
               = Len(DiscoveredSets(frame[p].model, Returns(p)[n].expressID))

(* C23, amended: in every returned result the PropertySet checks are one  *)
(* passing check per discovered set whose name matches propertySet, in    *)
(* the order of the sets and with the set's name as currentValue, and     *)
(* none for a set whose name does not match; when no set matches, there   *)
(* is the one failing check with currentValue null.                       *)
C23_OnePerMatchingSet ==
  \A p \in Procs :
    Returned(p) =>
      \A n \in 1..Len(Returns(p)) :
        LET named == NamedSets(frame[p].model, Returns(p)[n].expressID)
        IN  ChecksOf(Returns(p)[n], "PropertySet")
              = IF named = << >>
                  THEN << Check("PropertySet", null,
                                facet.propertySet.parameter, FALSE) >>
                ELSE [k \in 1..Len(named) |->
                        Check("PropertySet", properties[named[k]].Name.value,
                              facet.propertySet.parameter, TRUE)]

\* the entity has two sets, one of the asked name and one of another, and
\* its result holds one PropertySet check
C23_Witness ==
  /\ Returned(1) /\ frame[1].model = g1 /\ Len(Returns(1)) = 1
  /\ Len(DiscoveredSets(g1, 1)) = 2
  /\ Len(NamedSets(g1, 1)) = 1
  /\ Len(ChecksOf(Returns(1)[1], "PropertySet")) = 1
  /\ ChecksOf(Returns(1)[1], "PropertySet")[1].pass

\* the items of a set that are candidates: named as baseName asks and of no
\* unsupported kind
CandidateItems(id) ==
  SelectSeq(NamedItems(id), LAMBDA item : item.type \notin unsupportedTypes)

\* the BaseName checks a matching set leaves: one passing check per
\* candidate, or the one failing check of a set without candidates
BaseNameChecks(id) ==
  IF CandidateItems(id) = << >>
    THEN << Check("BaseName", null, facet.baseName.parameter, FALSE) >>
  ELSE [k \in 1..Len(CandidateItems(id)) |->
          Check("BaseName", CandidateItems(id)[k].Name.value,
                facet.baseName.parameter, TRUE)]

\* the matching sets of an entity that have no candidate item
SetsWithoutItem(model, expressID) ==
  SelectSeq(NamedSets(model, expressID),
            LAMBDA id : CandidateItems(id) = << >>)

(* C24: in every returned result, each matching set without an item named *)
(* as baseName asks has left one failing BaseName check with currentValue  *)
(* null and nothing else, the matching sets after it have been evaluated   *)
(* all the same (the BaseName checks of the result are those of all its    *)
(* matching sets, in order), and the result has not passed, whatever the   *)
(* other sets hold.                                                        *)
C24_ZeroItems ==
  \A p \in Procs :
    Returned(p) =>
      \A n \in 1..Len(Returns(p)) :
        LET named == NamedSets(frame[p].model, Returns(p)[n].expressID)
            without == SetsWithoutItem(frame[p].model, Returns(p)[n].expressID)
        IN  /\ named # << >> =>
                 ChecksOf(Returns(p)[n], "BaseName")
                   = Concat([k \in 1..Len(named) |-> BaseNameChecks(named[k])])
            /\ without # << >> => ~Returns(p)[n].pass
            /\ (named # << >> /\ Len(without) = Len(named)) =>
                 Len(Returns(p)[n].checks) = 2 * Len(named)

\* the first matching set has no item, the second has Width = 5 as the facet
\* asks: the result holds the failing check, then the checks of the second
\* set, all passed, and has not passed
C24_Witness ==
  /\ Returned(1) /\ frame[1].model = g1 /\ Len(Returns(1)) = 1
  /\ facet.value.type = "simple" /\ ~facet.dataType.has
  /\ Len(NamedSets(g1, 1)) = 2
  /\ CandidateItems(NamedSets(g1, 1)[1]) = << >>
  /\ Len(CandidateItems(NamedSets(g1, 1)[2])) = 1
  /\ ~Returns(1)[1].pass
  /\ Parameters(Returns(1)[1])
       = << "PropertySet", "PropertySet", "BaseName", "BaseName", "Value" >>
  /\ ~Returns(1)[1].checks[3].pass
  /\ Returns(1)[1].checks[3].currentValue = null
  /\ Returns(1)[1].checks[4].pass /\ Returns(1)[1].checks[5].pass

\* the rank of a check in the order set filter, item filter, evaluation
Rank(parameter) ==
  IF parameter = "PropertySet" THEN 1
  ELSE IF parameter = "BaseName" THEN 2
  ELSE 3

\* the least number of items that can have left the Value and DataType
\* checks of a list, if each item leaves at most one Value check and after
\* it at most one DataType check
LeastItems(params) ==
  Len(params)
    - Cardinality({i \in 1..(Len(params) - 1) :
                     params[i] = "Value" /\ params[i + 1] = "DataType"})

\* the list is the checks of one matching set: its BaseName checks, then
\* only Value and DataType checks, such as its candidates can have left
IsBlockOf(checks, id) ==
  LET head == BaseNameChecks(id)
      tail == [k \in 1..(Len(checks) - Len(head)) |->
                 checks[Len(head) + k].parameter]
  IN  /\ Len(checks) >= Len(head)
      /\ SubSeq(checks, 1, Len(head)) = head
      /\ \A k \in 1..Len(tail) : tail[k] \in {"Value", "DataType"}
      /\ LeastItems(tail) <= Len(CandidateItems(id))

\* the list is made of one block of checks per set, in the order of the sets
RECURSIVE IsBlocksOf(_, _)
IsBlocksOf(checks, ids) ==
  IF ids = << >> THEN checks = << >>
  ELSE \E cut \in 0..Len(checks) :
         /\ IsBlockOf(SubSeq(checks, 1, cut), Head(ids))
         /\ IsBlocksOf(SubSeq(checks, cut + 1, Len(checks)), Tail(ids))

(* C25, as stated: in every returned result the checks come in the order  *)
(* of their ranks: every PropertySet check before every BaseName check,    *)
(* and every BaseName check before every Value and DataType check, with    *)
(* one matching set or more.                                               *)
C25_RankOrder ==
  \A p \in Procs :
    Returned(p) =>
      \A n \in 1..Len(Returns(p)) :
        \A i, j \in 1..Len(Returns(p)[n].checks) :
          i < j => Rank(Returns(p)[n].checks[i].parameter)
                     <= Rank(Returns(p)[n].checks[j].parameter)

(* C25, amended: in every returned result of an entity with a matching    *)
(* set, the PropertySet checks of all matching sets come first; after      *)
(* them come the checks of the matching sets, set by set in the order of   *)
(* the sets: the BaseName checks of the set, then the Value and DataType   *)
(* checks of its matched items, for each item its Value check before its   *)
(* DataType check.  The BaseName checks of a later set come after the      *)
(* Value and DataType checks of an earlier one.                            *)
C25_SetBySet ==
  \A p \in Procs :
    Returned(p) =>
      \A n \in 1..Len(Returns(p)) :
        LET named == NamedSets(frame[p].model, Returns(p)[n].expressID)
            checks == Returns(p)[n].checks
        IN  named # << >> =>
              /\ Len(checks) >= Len(named)
              /\ \A k \in 1..Len(named) : checks[k].parameter = "PropertySet"
              /\ IsBlocksOf(SubSeq(checks, Len(named) + 1, Len(checks)),
                            named)

\* two matching sets with one matched item each, under a facet that asks a
\* value and a dataType: the BaseName check of the second set comes after
\* the Value and DataType checks of the first
C25_Witness ==
  /\ Returned(1) /\ frame[1].model = g1 /\ Len(Returns(1)) = 1
  /\ Len(NamedSets(g1, 1)) = 2
  /\ Parameters(Returns(1)[1])
       = << "PropertySet", "PropertySet", "BaseName", "Value", "DataType",
            "BaseName", "Value", "DataType" >>

\* the items of a set named as baseName asks that are complex properties or
\* complex quantities
ComplexItems(id) ==
  SelectSeq(NamedItems(id), LAMBDA item : item.type \in unsupportedTypes)

\* how many items of the matching sets of an entity are candidates
RECURSIVE Candidates(_)
Candidates(ids) ==
  IF ids = << >> THEN 0
  ELSE Len(CandidateItems(Head(ids))) + Candidates(Tail(ids))

\* the checks of the list that have passed
Passed(checks) == SelectSeq(checks, LAMBDA check : check.pass)

(* C26: in every returned result, an item that is a complex property or a *)
(* complex quantity has left no check, though it bears the name baseName   *)
(* asks: there are as many passing BaseName checks as the matching sets    *)
(* hold named items of other kinds, and no more Value checks and no more   *)
(* DataType checks than that; and an entity whose one matching set holds,  *)
(* under that name, only items of these kinds gets the passing             *)
(* PropertySet check and the one failing BaseName check with currentValue  *)
(* null, and has not passed.                                               *)
C26_UnsupportedKinds ==
  \A p \in Procs :
    Returned(p) =>
      \A n \in 1..Len(Returns(p)) :
        LET named == NamedSets(frame[p].model, Returns(p)[n].expressID)
            result == Returns(p)[n]
        IN  /\ named # << >> =>
                 /\ Len(Passed(ChecksOf(result, "BaseName")))
                      = Candidates(named)
                 /\ Len(ChecksOf(result, "Value")) <= Candidates(named)
                 /\ Len(ChecksOf(result, "DataType")) <= Candidates(named)
            /\ ( /\ Len(named) = 1
                 /\ ComplexItems(named[1]) # << >>
                 /\ CandidateItems(named[1]) = << >> )
               => /\ ~result.pass
                  /\ Parameters(result) = << "PropertySet", "BaseName" >>
                  /\ result.checks[1].pass
                  /\ result.checks[2]
                       = Check("BaseName", null, facet.baseName.parameter,
                               FALSE)

\* the one matching set holds a complex property named as asked and nothing
\* else of that name
C26_Witness ==
  /\ Returned(1) /\ frame[1].model = g1 /\ Len(Returns(1)) = 1
  /\ Len(NamedSets(g1, 1)) = 1
  /\ Len(ComplexItems(NamedSets(g1, 1)[1])) = 1
  /\ CandidateItems(NamedSets(g1, 1)[1]) = << >>
  /\ Len(Returns(1)[1].checks) = 2
  /\ ~Returns(1)[1].pass

====
